---- MODULE Spec2Model ----
(***************************************************************************)
(* A model of the cdp-cli daemon subsystem: the CircularBuffer, the CDP    *)
(* command correlation of sendCommand, and the CDPDaemon session registry  *)
(* with its three registration paths.                                      *)
(*                                                                         *)
(*   SpecBuf      one CircularBuffer: constructor, push, getAll, getLast,  *)
(*                clear                                                    *)
(*   SpecWire     one WebSocket connection and the commands sent on it     *)
(*   Spec         the CDPDaemon: registry, polling sweeps, target          *)
(*                discovery push events, /sessions handlers, socket closes *)
(*   SpecBatch    one POST /exec-batch request                             *)
(*   SpecExec     one POST /exec/:pageId request                           *)
(*   SpecRouter   the CLI's ExecRouter beside a daemon                     *)
(*   SpecHttp     the /sessions routes; SpecLogs: the /logs routes         *)
(*   SpecDisc     target discovery beside a browser that restarts          *)
(*   SpecBoot     daemon processes and the control port                    *)
(*   SpecClient   DaemonClient.startDaemon / stopDaemon                    *)
(*   SpecEvents   event frames on a PageSession with commands pending      *)
(*   SpecConnect  PageSession.connect and enableLogging                    *)
(*   SpecConsole  console events, the console ring and its detail index    *)
(*   SpecClose    PageSession.close beside commands and socket closes      *)
(*   SpecBrowser  the discovery sockets and this.browserWs                 *)
(*   SpecStop     CDPDaemon.stop beside suspended handlers                 *)
(***************************************************************************)
EXTENDS Bags, Integers, Sequences, FiniteSets, TLC

VARIABLES
    \* ---- SpecBuf: one CircularBuffer under test
    cb,         \* <<>> while no buffer exists, else <<the buffer object>>
    cbArg,      \* the capacity the constructor was last called with
    cbErr,      \* the message of the error the constructor threw, "" if none
    pushed,     \* history: the values pushed since the buffer was last empty
    lastOut,    \* the last getLast or clear call: its argument, result and the buffer before
    \* ---- SpecWire: one WebSocket connection and the commands sent on it
    wKind,      \* "session": PageSession.sendCommand; "direct": CDPContext.sendCommand
    wsOpen,     \* the socket's readyState is OPEN
    wsRef,      \* the sender still references the socket (PageSession: this.ws # null)
    messageId,  \* the sender's id counter
    cmds,       \* the commands that were given an id, by id: method, promise, ms elapsed
    handlers,   \* ids whose messageHandler is registered on the socket
    timers,     \* ids whose timeout is armed
    toAnswer,   \* command frames the remote end received and has not answered
    early,      \* the method last rejected with 'WebSocket not connected', "" if none
    \* ---- Spec: the CDPDaemon
    running,      \* the daemon process runs (start() done, stop() not yet)
    pageState,    \* the browser's page targets: "unborn", "live" or "gone"
    browserWs,    \* the target discovery socket: "null" or "open"
    sessions,     \* CDPDaemon.sessions: the registry Map, pageId -> PageSession
    detached,     \* open PageSessions the registry does not hold, per pageId
    tasks,        \* async handlers suspended at an await
    lastOp,       \* what the step just taken answered or returned
    \* ---- SpecBatch: one POST /exec-batch request on a PageSession
    batch,        \* the handler's position, its request, its results and answer
    \* ---- SpecRouter: the CLI's ExecRouter beside a daemon
    router,       \* the daemon as the CLI sees it, the exec session, the last command
    \* ---- SpecDisc: the daemon beside a browser that goes down and comes back
    browserUp,    \* the browser's HTTP endpoint answers (/json/list, /json/version)
    \* ---- SpecExec: one POST /exec/:pageId request on a PageSession
    exec,         \* the handler's position, the build that serves it, its answer
    \* ---- SpecBoot: daemon processes, the control port, one DaemonClient call
    procs,        \* the daemon processes spawned so far, in spawn order
    port,         \* who listens on the control port: 0 nobody, i procs[i], -1 another program
    call,         \* the DaemonClient call under way: startDaemon or stopDaemon
    \* ---- SpecConnect: one PageSession.connect() call
    conn,         \* the call's position, whether the socket errored, its outcome
    \* ---- SpecBrowser: the daemon's target discovery sockets
    disc          \* the sockets startTargetDiscovery created, this.browserWs, calls

bufVars == <<cb, cbArg, cbErr, pushed, lastOut>>
wireVars == <<wKind, wsOpen, wsRef, messageId, cmds, handlers, timers, toAnswer,
              early>>

daemonVars == <<running, pageState, browserWs, sessions, detached, tasks, lastOp>>

oldExt == <<batch, router, browserUp>>

bootVars == <<procs, port, call>>

restVars == <<exec, bootVars, conn, disc>>

\* What the actions of one part leave alone besides the wire.
notExec == <<bufVars, daemonVars, oldExt, bootVars, conn, disc>>
notBoot == <<bufVars, wireVars, daemonVars, oldExt, exec, conn, disc>>
notConn == <<bufVars, daemonVars, oldExt, exec, bootVars, disc>>
notDisc == <<bufVars, wireVars, daemonVars, oldExt, exec, bootVars, conn>>

extVars == <<oldExt, restVars>>

vars == <<bufVars, wireVars, daemonVars, extVars>>

\* ------------------------------------------------------------------ bounds
MaxCap == 3          \* constructor arguments range over -MaxCap..MaxCap
MaxVal == 2          \* pushed values range over 1..MaxVal
MaxPushes == 5       \* pushes since the buffer was last empty
MaxK == 4            \* getLast arguments range over 0..MaxK
MaxCmds == 3         \* commands given an id on the connection
TickMs == 10000      \* the clock's step, in ms
MaxSessions == 2     \* PageSession objects alive at once
MaxTasks == 2        \* async handlers suspended at once
MaxConsole == 1      \* console messages one PageSession receives
BufferSize == 2      \* the daemon's config.bufferSize

\* ------------------------------------------------------------ helpers
Min(a, b) == IF a < b THEN a ELSE b

RECURSIVE Reverse(_)
Reverse(s) == IF s = <<>> THEN <<>> ELSE Append(Reverse(Tail(s)), Head(s))

\* The last n elements of s, in order.
LastN(s, n) == SubSeq(s, Len(s) - Min(n, Len(s)) + 1, Len(s))

\* ------------------------------------------------------- CircularBuffer
\* What reading a slot of `new Array(capacity)` that was never written gives.
Undefined == 0

CapacityError == "Capacity must be positive"

\* constructor(capacity): throws when capacity <= 0.
CBThrowsWrong(capacity) == capacity < 0
CBThrows(capacity) == capacity <= 0

\* The object the constructor builds: a sparse array, head = 0, count = 0.
CBNew(capacity) ==
    [capacity |-> capacity, buffer |-> <<>>, head |-> 0, count |-> 0]

\* this.buffer[index]
CBAt(b, index) ==
    IF index \in DOMAIN b.buffer THEN b.buffer[index] ELSE Undefined

\* this.buffer[index] = item
CBStore(b, index, item) ==
    [i \in (DOMAIN b.buffer) \cup {index} |-> IF i = index THEN item ELSE b.buffer[i]]

\* The slot push writes.
PushIndexWrong(b) == b.head % b.capacity
PushIndex(b) == (b.head + b.count) % b.capacity

\* push(item)
CBPush(b, item) ==
    LET stored == [b EXCEPT !.buffer = CBStore(b, PushIndex(b), item)]
    IN  IF b.count < b.capacity
        THEN [stored EXCEPT !.count = b.count + 1]
        ELSE [stored EXCEPT !.head = (b.head + 1) % b.capacity]

\* The slot getLast reads in iteration i.
GetLastIndexWrong(b, i) == (b.head + i) % b.capacity
GetLastIndex(b, i) == (b.head + b.count - 1 - i) % b.capacity

\* getLast(n): the loop `for (i = 0; i < Math.min(n, count); i++)`.
RECURSIVE CBGetLastFrom(_, _, _)
CBGetLastFrom(b, i, count) ==
    IF i < count
    THEN <<CBAt(b, GetLastIndex(b, i))>> \o CBGetLastFrom(b, i + 1, count)
    ELSE <<>>

CBGetLast(b, n) == CBGetLastFrom(b, 0, Min(n, b.count))

\* getAll(): the loop `for (i = 0; i < count; i++)`.
RECURSIVE CBGetAllFrom(_, _)
CBGetAllFrom(b, i) ==
    IF i < b.count
    THEN <<CBAt(b, (b.head + i) % b.capacity)>> \o CBGetAllFrom(b, i + 1)
    ELSE <<>>

CBGetAll(b) == CBGetAllFrom(b, 0)

\* clear()
CBClearWrong(b) == [b EXCEPT !.buffer = <<>>, !.head = 0]
CBClear(b) == [b EXCEPT !.buffer = <<>>, !.head = 0, !.count = 0]

\* get size / get maxSize
CBSize(b) == b.count
CBMaxSize(b) == b.capacity


\* No getLast call recorded, and the state of SpecBuf before any construction.
NoCall == [k |-> -1, out |-> <<>>, before |-> <<>>]

BufIdle ==
    /\ cb = <<>>
    /\ cbArg = 0
    /\ cbErr = ""
    /\ pushed = <<>>
    /\ lastOut = NoCall

WireIdle ==
    /\ wKind = "none"
    /\ wsOpen = FALSE
    /\ wsRef = FALSE
    /\ messageId = 1
    /\ cmds = <<>>
    /\ handlers = {}
    /\ timers = {}
    /\ toAnswer = {}
    /\ early = ""

\* -------------------------------------------------------------- CDPDaemon
\* The page targets the browser may hold; a target id is never reused.
PageIds == {"p1", "p2"}

NoOp == [op |-> "none"]

\* this.sessions.has(pageId), in registerPage and in POST /sessions.
RegisterHasWrong(reg, pageId) == FALSE
RegisterHas(reg, pageId) == pageId \in DOMAIN reg

PostHasWrong(reg, pageId) == FALSE
PostHas(reg, pageId) == pageId \in DOMAIN reg

\* The sessions the sweep's removal loop keeps: `pageIds.has(pageId)`.
SweepKeepsWrong(pageIds, pageId) == TRUE
SweepKeeps(pageIds, pageId) == pageId \in pageIds

\* new PageSession(options); connect() does `new WebSocket(url)`.
NewSession(pageId) ==
    [pageId |-> pageId, ws |-> "connecting", closed |-> FALSE,
     consoleId |-> 1, consoleBuffer |-> CBNew(BufferSize),
     consoleById |-> <<>>, networkBuffer |-> CBNew(BufferSize),
     networkRequests |-> <<>>]

\* The session as connect() resolves: the socket is open, logging enabled.
Connected(ps) == [ps EXCEPT !.ws = "open"]

\* PageSession.isConnected / getStats()
IsConnected(ps) == ps.ws = "open"
GetStats(ps) ==
    [console |-> CBSize(ps.consoleBuffer), network |-> CBSize(ps.networkBuffer),
     connected |-> IsConnected(ps)]

\* handleMessage with Runtime.consoleAPICalled: the message gets the next
\* consoleId, is pushed into the console buffer and indexed by its id.
OnConsole(ps) ==
    [ps EXCEPT !.consoleBuffer = CBPush(@, ps.consoleId),
               !.consoleById = [i \in (DOMAIN @) \cup {ps.consoleId} |->
                                   IF i = ps.consoleId THEN ps.consoleId ELSE @[i]],
               !.consoleId = @ + 1]

\* updateNetworkRequest(requestId, patch): the record `next`, each field
\* `patch.f ?? current?.f ?? default`, built as a new object. Of the fields
\* the model keeps method (set by requestWillBeSent), status (set by
\* responseReceived) and size (set by loadingFinished).
UpdateNetworkRequest(ps, requestId, patch) ==
    LET has == requestId \in DOMAIN ps.networkRequests
        Field(f, default) ==
            IF f \in DOMAIN patch THEN patch[f]
            ELSE IF has THEN ps.networkRequests[requestId][f] ELSE default
    IN  [id |-> requestId, method |-> Field("method", "GET"),
         status |-> Field("status", Undefined), size |-> Field("size", Undefined)]

NetworkMethods ==
    {"Network.requestWillBeSent", "Network.responseReceived", "Network.loadingFinished"}

\* The patch handleMessage builds from the event's params.
PatchOf(method, v) ==
    IF method = "Network.requestWillBeSent" THEN [method |-> "POST"]
    ELSE IF method = "Network.responseReceived" THEN [status |-> v]
    ELSE [size |-> v]

\* `this.networkBuffer.push(entry)` is in the requestWillBeSent branch only.
PushesEntryWrong(method) == method \in NetworkMethods
PushesEntry(method) == method = "Network.requestWillBeSent"

\* handleMessage with one of the three Network events: networkRequests gets
\* the merged record; requestWillBeSent also pushes it into the buffer.
OnNetwork(ps, method, requestId, v) ==
    LET next == UpdateNetworkRequest(ps, requestId, PatchOf(method, v))
        indexed == [ps EXCEPT !.networkRequests =
                       [r \in (DOMAIN @) \cup {requestId} |->
                           IF r = requestId THEN next ELSE @[r]]]
    IN  IF PushesEntry(method)
        THEN [indexed EXCEPT !.networkBuffer = CBPush(@, next)]
        ELSE indexed

\* handleMessage(data): the branches on message.method; any other method
\* leaves the session as it is.
HandleMessage(ps, method, requestId, v) ==
    IF method \in {"Runtime.consoleAPICalled", "Runtime.exceptionThrown"}
    THEN OnConsole(ps)
    ELSE IF method \in NetworkMethods
    THEN OnNetwork(ps, method, requestId, v)
    ELSE ps

\* clearLogs(): both buffers and both indexes are emptied.
ClearLogsWrong(ps) ==
    [ps EXCEPT !.consoleBuffer = CBClear(@), !.consoleById = <<>>,
               !.networkBuffer = CBClear(@), !.networkRequests = <<>>,
               !.consoleId = 1]
ClearLogs(ps) ==
    [ps EXCEPT !.consoleBuffer = CBClear(@), !.consoleById = <<>>,
               !.networkBuffer = CBClear(@), !.networkRequests = <<>>]

\* PageSession.close()
ClosePageSession(ps) == [ps EXCEPT !.closed = TRUE, !.ws = "null"]

\* Map operations on the registry.
MapSet(reg, pageId, ps) ==
    [q \in (DOMAIN reg) \cup {pageId} |-> IF q = pageId THEN ps ELSE reg[q]]
MapDelete(reg, pageId) == [q \in (DOMAIN reg) \ {pageId} |-> reg[q]]

\* `detached` counts, per pageId, the PageSession objects whose socket is open
\* and which the registry does not hold: `never` inserted (their connect()
\* rejected) or `was` an entry once. Only their own socket's 'close' handler
\* still references them; their buffers can no longer be read.
NoDetached == [q \in PageIds |-> [never |-> 0, was |-> 0]]

\* The entry of pageId leaves the registry as the session `after`: if its
\* socket is still open the session is detached.
Leaves(det, pageId, after) ==
    IF IsConnected(after) THEN [det EXCEPT ![pageId].was = @ + 1] ELSE det

\* `session.close(); this.sessions.delete(pageId)` for each pageId of gone.
RECURSIVE CloseAll(_, _, _)
CloseAll(reg, det, gone) ==
    IF gone = {} THEN [reg |-> reg, det |-> det]
    ELSE LET q == CHOOSE x \in gone : TRUE
         IN  CloseAll(MapDelete(reg, q), Leaves(det, q, ClosePageSession(reg[q])),
                      gone \ {q})

\* The onClose callback of a session of pageId, `this.sessions.delete(pageId)`:
\* whatever session is the entry of pageId leaves the registry as it is.
OnClose(reg, det, pageId) ==
    IF pageId \in DOMAIN reg
    THEN [reg |-> MapDelete(reg, pageId), det |-> Leaves(det, pageId, reg[pageId])]
    ELSE [reg |-> reg, det |-> det]

\* `this.sessions.set(pageId, session)`: an entry already there leaves.
Insert(reg, det, pageId, ps) ==
    [reg |-> MapSet(reg, pageId, ps),
     det |-> IF pageId \in DOMAIN reg THEN Leaves(det, pageId, reg[pageId]) ELSE det]

\* The orders in which the browser may list the pages of S.
Perms(S) ==
    {f \in [1..Cardinality(S) -> S] : \A i, j \in 1..Cardinality(S) : f[i] = f[j] => i = j}

\* The pages getPages() lists.
LivePages == {q \in PageIds : pageState[q] = "live"}

\* History of a sweep: "fetched" (getPages() resolved, no connect awaited
\* yet), "alone" (every connect it awaited resolved and no other path changed
\* the registry since its fetch), "mixed" (every connect resolved, but another
\* path changed the registry meanwhile), "failed" (a connect rejected).
Overtaken(x) ==
    IF x.kind = "sweep" /\ x.pc = "connect" /\ x.hist \in {"fetched", "alone"}
    THEN [x EXCEPT !.hist = "mixed"] ELSE x
Dirty(ts, changed) == IF changed THEN BagOfAll(Overtaken, ts) ELSE ts

Resumed(hist, ok) ==
    IF ~ok THEN "failed" ELSE IF hist = "fetched" THEN "alone" ELSE hist

\* A suspended handler; at pc "connect" it owns a PageSession whose connect()
\* it awaits. Of a sweep: todo (the pages it has still to visit), fetched (the
\* ids getPages() listed) and hist. `tasks` is the bag of them.
Task(kind, pc, page) ==
    [kind |-> kind, pc |-> pc, page |-> page, todo |-> <<>>, fetched |-> {}, hist |-> ""]

CanAdd(ts) == BagCardinality(ts) < MaxTasks
AddTask(ts, t) == ts (+) SetToBag({t})
RemoveTask(ts, t) == ts (-) SetToBag({t})

\* The PageSession objects with a socket: entries, detached, connecting.
RECURSIVE SumDetached(_, _)
SumDetached(det, S) ==
    IF S = {} THEN 0
    ELSE LET q == CHOOSE x \in S : TRUE
         IN  det[q].never + det[q].was + SumDetached(det, S \ {q})
NumSessions(reg, det, ts) ==
    Cardinality(DOMAIN reg) + SumDetached(det, PageIds)
        + BagCardinality([t \in {x \in DOMAIN ts : x.pc = "connect"} |-> ts[t]])

DaemonIdle ==
    /\ running = FALSE
    /\ pageState = [q \in PageIds |-> "unborn"]
    /\ browserWs = "null"
    /\ sessions = <<>>
    /\ detached = NoDetached
    /\ tasks = EmptyBag
    /\ lastOp = NoOp

\* No /exec-batch request was made.
NoBatch == [pc |-> "idle", commands |-> <<>>, results |-> <<>>, issued |-> <<>>,
            i |-> 0, waitId |-> 0, code |-> 0]

\* No exec session was created, no command issued through one.
NoSession == [made |-> FALSE, by |-> "", ref |-> "", useDaemon |-> FALSE,
              pageId |-> "", seen |-> <<>>]
NoResult == [done |-> FALSE, ok |-> FALSE, on |-> "", ref |-> ""]
NoRouter == [up |-> FALSE, list |-> <<>>, sess |-> NoSession, last |-> NoResult]

\* No /exec request was made.
NoExec == [pc |-> "idle", build |-> "", registered |-> FALSE, tracked |-> FALSE,
           connected |-> FALSE, waitId |-> 0, code |-> 0, data |-> <<>>]

OldIdle == batch = NoBatch /\ router = NoRouter /\ browserUp = TRUE

\* No DaemonClient call is under way.
NoClientCall == [op |-> "", pc |-> "idle", opt |-> 0, elapsed |-> 0, spawned |-> 0,
                 sent |-> FALSE, result |-> ""]

BootIdle == procs = <<>> /\ port = 0 /\ call = NoClientCall

\* No connect() call was made.
NoConn ==
    [pc |-> "idle", waitId |-> 0, errored |-> FALSE, error |-> [kind |-> "none"],
     closed |-> FALSE, sock |-> "none", closeCalls |-> 0, onClose |-> 0]

\* start() was not called: no discovery socket, no startTargetDiscovery call.
NoDisc == [socks |-> <<>>, ref |-> 0, fetching |-> 0, calls |-> 0, timer |-> FALSE,
           stopped |-> FALSE]

ExtIdle == OldIdle /\ exec = NoExec /\ BootIdle /\ conn = NoConn /\ disc = NoDisc

\* ------------------------------------------------------------ sendCommand
\* PageSession.sendCommand and CDPContext.sendCommand on one WebSocket.
SessionTimeoutMs == 10000
DirectTimeoutMs == 30000

Methods == {"Runtime.enable", "Page.navigate"}

TimeoutMs(kind) == IF kind = "session" THEN SessionTimeoutMs ELSE DirectTimeoutMs

Pending == [kind |-> "pending"]

\* `if (message.id === id)` of messageHandler.
HandlerMatchesWrong(id, message) == TRUE
HandlerMatches(id, message) == message.id = id

\* reject(new Error(`Command timeout: ${method}`))
TimeoutErrorWrong(method) == [kind |-> "timeout", method |-> "unknown"]
TimeoutError(method) == [kind |-> "timeout", method |-> method]

\* `this.ws?.off('message', messageHandler)` (PageSession) and
\* `ws.off('message', messageHandler)` (CDPContext): whether off() is called.
OffCalledWrong == FALSE
OffCalled == wKind = "direct" \/ wsRef

\* resolve/reject on a promise: only the first call settles it.
Settle(c, outcome) ==
    [c EXCEPT !.outcome = IF c.outcome = Pending THEN outcome ELSE c.outcome,
              !.nSettle = c.nSettle + 1]

\* An open connection on which nothing was sent yet.
InitWire ==
    /\ BufIdle
    /\ DaemonIdle
    /\ ExtIdle
    /\ wKind \in {"session", "direct"}
    /\ wsOpen = TRUE
    /\ wsRef = TRUE
    /\ messageId = 1
    /\ cmds = <<>>
    /\ handlers = {}
    /\ timers = {}
    /\ toAnswer = {}
    /\ early = ""

\* PageSession.sendCommand when `!this.ws || readyState !== OPEN`: rejected
\* at once, no id is taken.
SendNotConnected(method) ==
    /\ wKind = "session"
    /\ ~(wsRef /\ wsOpen)
    /\ early' = method
    /\ UNCHANGED <<wKind, wsOpen, wsRef, messageId, cmds, handlers, timers, toAnswer>>
    /\ UNCHANGED <<bufVars, daemonVars, extVars>>

\* sendCommand(method): take the next id, register messageHandler, arm the
\* timeout, write the frame. ws.send on a socket that is no longer open drops
\* the frame.
Send(method) ==
    /\ wKind = "direct" \/ (wsRef /\ wsOpen)
    /\ messageId <= MaxCmds
    /\ messageId' = messageId + 1
    /\ cmds' = Append(cmds, [id |-> messageId, method |-> method, outcome |-> Pending,
                             nSettle |-> 0, elapsed |-> 0, sent |-> wsOpen])
    /\ handlers' = handlers \cup {messageId}
    /\ timers' = timers \cup {messageId}
    /\ toAnswer' = IF wsOpen
                   THEN toAnswer \cup {[id |-> messageId, method |-> method]}
                   ELSE toAnswer
    /\ UNCHANGED <<wKind, wsOpen, wsRef, early>>

SendCommand(method) ==
    /\ Send(method)
    /\ UNCHANGED <<bufVars, daemonVars, extVars>>

\* The socket emits 'message' with `message`: every registered messageHandler
\* runs; one whose id matches clears its timeout, removes itself and settles.
Dispatch(message) ==
    LET hit == {h \in handlers : HandlerMatches(h, message)}
        outcome == IF message.err
                   THEN [kind |-> "cdp-error", body |-> message.body]
                   ELSE [kind |-> "result", body |-> message.body]
    IN  /\ timers' = timers \ hit
        /\ handlers' = IF OffCalled THEN handlers \ hit ELSE handlers
        /\ cmds' = [i \in DOMAIN cmds |->
                      IF i \in hit THEN Settle(cmds[i], outcome) ELSE cmds[i]]

\* The remote end answers a command it received, with a result or a CDP error,
\* in any order; the frame carries the id of the command it answers.
RemoteRespond(f, err) ==
    /\ wsOpen
    /\ f \in toAnswer
    /\ toAnswer' = toAnswer \ {f}
    /\ Dispatch([id |-> f.id, err |-> err, body |-> f])
    /\ UNCHANGED <<wKind, wsOpen, wsRef, messageId, early>>
    /\ UNCHANGED <<bufVars, daemonVars, extVars>>

\* The remote end sends an event: a frame with a method and no id
\* (message.id is undefined).
RemoteEvent(method) ==
    /\ wsOpen
    /\ Dispatch([id |-> Undefined, err |-> FALSE, body |-> [id |-> Undefined, method |-> method]])
    /\ UNCHANGED <<wKind, wsOpen, wsRef, messageId, toAnswer, early>>
    /\ UNCHANGED <<bufVars, daemonVars, extVars>>

\* The timeout of command id fires, not before its delay has elapsed.
TimerFire(id) ==
    /\ id \in timers
    /\ cmds[id].elapsed >= TimeoutMs(wKind)
    /\ timers' = timers \ {id}
    /\ handlers' = IF OffCalled THEN handlers \ {id} ELSE handlers
    /\ cmds' = [cmds EXCEPT ![id] = Settle(cmds[id], TimeoutError(cmds[id].method))]
    /\ UNCHANGED <<wKind, wsOpen, wsRef, messageId, toAnswer, early>>
    /\ UNCHANGED <<bufVars, daemonVars, extVars>>

\* The socket closes: readyState leaves OPEN; PageSession's 'close' handler
\* (and PageSession.close) set this.ws = null. Pending commands are not touched.
SocketClosed ==
    /\ wsOpen
    /\ wsOpen' = FALSE
    /\ wsRef' = IF wKind = "session" THEN FALSE ELSE wsRef
    /\ UNCHANGED <<wKind, messageId, cmds, handlers, timers, toAnswer, early>>
    /\ UNCHANGED <<bufVars, daemonVars, extVars>>

\* TickMs pass: every armed timeout that is not yet due comes closer.
Tick ==
    /\ \E id \in timers : cmds[id].elapsed < TimeoutMs(wKind)
    /\ cmds' = [i \in DOMAIN cmds |->
                  IF i \in timers /\ cmds[i].elapsed < TimeoutMs(wKind)
                  THEN [cmds[i] EXCEPT !.elapsed = @ + TickMs]
                  ELSE cmds[i]]
    /\ UNCHANGED <<wKind, wsOpen, wsRef, messageId, handlers, timers, toAnswer, early>>
    /\ UNCHANGED <<bufVars, daemonVars, extVars>>

NextWire ==
    \/ \E method \in Methods : SendNotConnected(method)
    \/ \E method \in Methods : SendCommand(method)
    \/ \E f \in toAnswer, err \in BOOLEAN : RemoteRespond(f, err)
    \/ \E method \in {"Runtime.consoleAPICalled"} : RemoteEvent(method)
    \/ \E id \in timers : TimerFire(id)
    \/ SocketClosed
    \/ Tick

SpecWire == InitWire /\ [][NextWire]_vars

\* The connection with one method sent and answered by results only, time
\* passing and due timeouts firing (the event loop runs setTimeout callbacks).
NextWireLive ==
    \/ \E method \in {"Runtime.enable"} : SendNotConnected(method)
    \/ \E method \in {"Runtime.enable"} : SendCommand(method)
    \/ \E f \in toAnswer : RemoteRespond(f, FALSE)
    \/ \E id \in timers : TimerFire(id)
    \/ SocketClosed
    \/ Tick

SpecWireLive ==
    /\ InitWire
    /\ [][NextWireLive]_vars
    /\ WF_vars(Tick)
    /\ WF_vars(\E id \in timers : TimerFire(id))

\* ------------------------------------------------------------ /exec-batch
\* POST /exec-batch of the daemon: the handler's loop over `commands`, each
\* command sent with PageSession.sendCommand on the session's socket.
MaxBatch == 2        \* commands in one /exec-batch request

\* A `null` element of the commands array: `cmd.method` throws a TypeError.
NullCmd == "null"

BatchInputs == UNION {[1..n -> Methods \cup {NullCmd}] : n \in 0..MaxBatch}

\* results.push({ success: true, result }) / ({ success: false, error })
EntryOf(outcome) ==
    IF outcome.kind = "result"
    THEN [success |-> TRUE, result |-> outcome.body]
    ELSE [success |-> FALSE, error |-> outcome]

\* `for (const cmd of commands)`: the catch block does not leave the loop.
NextIndexWrong(i, entry, n) == IF entry.success THEN i + 1 ELSE n + 1
NextIndex(i, entry, n) == i + 1

BatchPush(b, entry, id) ==
    [b EXCEPT !.results = Append(@, entry),
              !.issued = Append(@, id),
              !.i = NextIndex(b.i, entry, Len(b.commands))]

\* The loop from command b.i on, up to its next await on a command that was
\* sent: a null element and a sendCommand on a session that is not connected
\* fail at once (the rejection is handled in a microtask) and the loop goes
\* on; after the last command the handler answers 200.
RECURSIVE BatchRun(_)
BatchRun(b) ==
    IF b.i > Len(b.commands)
    THEN [b EXCEPT !.pc = "done", !.code = 200, !.waitId = 0]
    ELSE IF b.commands[b.i] = NullCmd
    THEN BatchRun(BatchPush(b, EntryOf([kind |-> "type-error"]), 0))
    ELSE IF ~(wsRef /\ wsOpen)
    THEN BatchRun(BatchPush(b, EntryOf([kind |-> "not-connected"]), 0))
    ELSE [b EXCEPT !.pc = "await", !.waitId = messageId]

\* The handler runs on from b and suspends or answers.
BatchStep(b) ==
    /\ batch' = BatchRun(b)
    /\ IF batch'.pc = "await"
       THEN Send(batch'.commands[batch'.i])
       ELSE UNCHANGED wireVars
    /\ UNCHANGED <<bufVars, daemonVars, router, browserUp, restVars>>

\* The request's body was read: 400 without pageId or commands array, 404
\* without a session for pageId, 503 when it is not connected, else the loop.
ExecBatch(valid, tracked, commands) ==
    /\ batch.pc = "idle"
    /\ IF ~valid \/ ~tracked \/ ~(wsRef /\ wsOpen)
       THEN /\ batch' = [NoBatch EXCEPT !.pc = "done",
                                        !.code = IF ~valid THEN 400
                                                 ELSE IF ~tracked THEN 404 ELSE 503]
            /\ UNCHANGED <<bufVars, wireVars, daemonVars, router, browserUp, restVars>>
       ELSE BatchStep([NoBatch EXCEPT !.commands = commands, !.i = 1])

\* The awaited command has settled.
ResumeDue == batch.pc = "await" /\ cmds[batch.waitId].outcome # Pending

\* `await session.sendCommand(...)` resumes with the command's outcome.
BatchResume ==
    /\ ResumeDue
    /\ BatchStep(BatchPush(batch, EntryOf(cmds[batch.waitId].outcome), batch.waitId))

InitBatch ==
    /\ BufIdle
    /\ DaemonIdle
    /\ ExtIdle
    /\ wKind = "session"
    /\ wsOpen = TRUE
    /\ wsRef = TRUE
    /\ messageId = 1
    /\ cmds = <<>>
    /\ handlers = {}
    /\ timers = {}
    /\ toAnswer = {}
    /\ early = ""

\* A continuation that is due runs before the next event is handled. Another
\* handler (POST /exec) may send on the same session while the batch waits.
NextBatch ==
    \/ BatchResume
    \/ ~ResumeDue /\ \E valid, tracked \in BOOLEAN, commands \in BatchInputs :
                        ExecBatch(valid, tracked, commands)
    \/ ~ResumeDue /\ batch.pc = "await" /\ \E method \in {"Page.navigate"} : SendCommand(method)
    \/ ~ResumeDue /\ \E f \in toAnswer, err \in BOOLEAN : RemoteRespond(f, err)
    \/ ~ResumeDue /\ \E id \in timers : TimerFire(id)
    \/ ~ResumeDue /\ SocketClosed
    \/ ~ResumeDue /\ Tick

SpecBatch == InitBatch /\ [][NextBatch]_vars

\* ----------------------------------------------------------- ExecRouter
\* createExecSession / createExecSessionByPageRef of the CLI next to a daemon
\* that starts, stops, gains and loses sessions. router.list is what
\* GET /sessions answers: pageId -> connected. The pages of PageIds are live
\* throughout, so context.findPage and context.connect succeed.
SessionLists == UNION {[S -> BOOLEAN] : S \in SUBSET PageIds}

\* daemon.listSessions(): throws when the daemon is not reachable (the callers
\* catch it), else the list.
Listed == IF router.up THEN router.list ELSE <<>>

\* sessions.find(s => s.pageId === id && s.connected)
FindConnected(list, id) == id \in DOMAIN list /\ list[id]

\* `if (!session && sessions.length === 1 && sessions[0].connected)
\*      session = sessions[0]`
OnlySession(list) ==
    IF Cardinality(DOMAIN list) = 1 /\ list[CHOOSE q \in DOMAIN list : TRUE]
    THEN {CHOOSE q \in DOMAIN list : TRUE}
    ELSE {}

DaemonSession(by, ref, pageId, list) ==
    [made |-> TRUE, by |-> by, ref |-> ref, useDaemon |-> TRUE, pageId |-> pageId,
     seen |-> list]
DirectSession(by, ref, list) ==
    [made |-> TRUE, by |-> by, ref |-> ref, useDaemon |-> FALSE, pageId |-> ref,
     seen |-> list]

\* createExecSession(context, page)
CreateExecSession(page) ==
    /\ router' = [router EXCEPT !.sess =
                     IF FindConnected(Listed, page.id)
                     THEN DaemonSession("page", page.id, page.id, Listed)
                     ELSE DirectSession("page", page.id, Listed)]
    /\ UNCHANGED <<bufVars, wireVars, daemonVars, batch, browserUp, restVars>>

\* createExecSessionByPageRef(context, pageIdOrTitle)
CreateExecSessionByPageRef(pageIdOrTitle) ==
    /\ router' = [router EXCEPT !.sess =
                     IF FindConnected(Listed, pageIdOrTitle)
                     THEN DaemonSession("ref", pageIdOrTitle, pageIdOrTitle, Listed)
                     ELSE IF OnlySession(Listed) # {}
                     THEN DaemonSession("ref", pageIdOrTitle,
                                        CHOOSE q \in OnlySession(Listed) : TRUE, Listed)
                     ELSE DirectSession("ref", pageIdOrTitle, Listed)]
    /\ UNCHANGED <<bufVars, wireVars, daemonVars, batch, browserUp, restVars>>

\* session.exec(method): daemon.execCommand(pageId, ...) posts /exec/:pageId
\* and throws when the fetch fails or the answer is not ok (404 no session,
\* 503 not connected); context.sendCommand(ws, ...) runs on the direct socket.
SessionExec ==
    /\ router.sess.made
    /\ router' = [router EXCEPT !.last =
                     [done |-> TRUE,
                      ok |-> IF router.sess.useDaemon
                             THEN router.up /\ FindConnected(router.list, router.sess.pageId)
                             ELSE TRUE,
                      on |-> router.sess.pageId,
                      ref |-> router.sess.ref]]
    /\ UNCHANGED <<bufVars, wireVars, daemonVars, batch, browserUp, restVars>>

\* The daemon process starts with an empty registry / stops.
DaemonStart ==
    /\ ~router.up
    /\ router' = [router EXCEPT !.up = TRUE, !.list = <<>>]
    /\ UNCHANGED <<bufVars, wireVars, daemonVars, batch, browserUp, restVars>>

DaemonStop ==
    /\ router.up
    /\ router' = [router EXCEPT !.up = FALSE, !.list = <<>>]
    /\ UNCHANGED <<bufVars, wireVars, daemonVars, batch, browserUp, restVars>>

\* The daemon's registry changes: it holds `list` from now on.
DaemonList(list) ==
    /\ router.up
    /\ list # router.list
    /\ router' = [router EXCEPT !.list = list]
    /\ UNCHANGED <<bufVars, wireVars, daemonVars, batch, browserUp, restVars>>

InitRouter == BufIdle /\ WireIdle /\ DaemonIdle /\ ExtIdle

NextRouter ==
    \/ \E p \in PageIds : CreateExecSession([id |-> p])
    \/ \E p \in PageIds : CreateExecSessionByPageRef(p)
    \/ SessionExec
    \/ DaemonStart
    \/ DaemonStop
    \/ \E list \in SessionLists : DaemonList(list)

SpecRouter == InitRouter /\ [][NextRouter]_vars

\* ------------------------------------------------------ SpecBuf actions
InitBuf == BufIdle /\ WireIdle /\ DaemonIdle /\ ExtIdle

\* new CircularBuffer(capacity)
Construct(capacity) ==
    /\ cb = <<>>
    /\ cbArg' = capacity
    /\ IF CBThrows(capacity)
       THEN /\ cbErr' = CapacityError
            /\ cb' = <<>>
       ELSE /\ cbErr' = ""
            /\ cb' = <<CBNew(capacity)>>
    /\ pushed' = <<>>
    /\ lastOut' = NoCall
    /\ UNCHANGED <<wireVars, daemonVars, extVars>>

\* buffer.push(item)
Push(item) ==
    /\ cb # <<>>
    /\ Len(pushed) < MaxPushes
    /\ cb' = <<CBPush(cb[1], item)>>
    /\ pushed' = Append(pushed, item)
    /\ lastOut' = NoCall
    /\ UNCHANGED <<cbArg, cbErr>>
    /\ UNCHANGED <<wireVars, daemonVars, extVars>>

\* buffer.getLast(k)
GetLast(k) ==
    /\ cb # <<>>
    /\ lastOut' = [k |-> k, out |-> CBGetLast(cb[1], k), before |-> cb]
    /\ UNCHANGED <<cb, cbArg, cbErr, pushed>>
    /\ UNCHANGED <<wireVars, daemonVars, extVars>>

\* What lastOut holds right after clear(): no getLast result, and the buffer
\* that was cleared.
Cleared(before) == [k |-> -2, out |-> <<>>, before |-> before]

\* buffer.clear()
Clear ==
    /\ cb # <<>>
    /\ pushed # <<>>
    /\ cb' = <<CBClear(cb[1])>>
    /\ pushed' = <<>>
    /\ lastOut' = Cleared(cb)
    /\ UNCHANGED <<cbArg, cbErr>>
    /\ UNCHANGED <<wireVars, daemonVars, extVars>>

NextBuf ==
    \/ \E capacity \in (0 - MaxCap)..MaxCap : Construct(capacity)
    \/ \E item \in 1..MaxVal : Push(item)
    \/ \E k \in 0..MaxK : GetLast(k)
    \/ Clear

SpecBuf == InitBuf /\ [][NextBuf]_vars

\* After start(): the server listens, the interval is set, target discovery
\* has connected to the browser; no page is tracked yet.
Init ==
    /\ BufIdle
    /\ WireIdle
    /\ ExtIdle
    /\ running = TRUE
    /\ pageState = [q \in PageIds |-> "unborn"]
    /\ browserWs = "open"
    /\ sessions = <<>>
    /\ detached = NoDetached
    /\ tasks = EmptyBag
    /\ lastOp = NoOp

\* ------------------------------------------------- CDPDaemon: the handlers
Others == <<bufVars, wireVars, extVars>>

\* The polling sweep's loop `for (const page of pages)` from list `todo` on,
\* with registry reg: pages already tracked are skipped; at the first
\* untracked one registerPage constructs a PageSession and awaits connect();
\* with none left the sweep is done.
FirstUntracked(reg, todo) ==
    LET idx == {i \in 1..Len(todo) :
                  todo[i] \notin DOMAIN reg /\ ~RegisterHas(reg, todo[i])}
    IN  IF idx = {} THEN 0 ELSE CHOOSE i \in idx : \A j \in idx : i <= j

SweepLoop(t, reg, det, rest) ==
    LET i == FirstUntracked(reg, t.todo)
        me == [t EXCEPT !.pc = "connect", !.page = t.todo[i],
                        !.todo = SubSeq(t.todo, i + 1, Len(t.todo))]
    IN  IF i = 0
        THEN /\ sessions' = reg
             /\ detached' = det
             /\ tasks' = rest
             /\ lastOp' = [op |-> "sweep-done", fetched |-> t.fetched, hist |-> t.hist]
        ELSE /\ NumSessions(reg, det, rest) < MaxSessions
             /\ sessions' = reg
             /\ detached' = det
             /\ tasks' = AddTask(rest, me)
             /\ lastOp' = NoOp

\* The interval fires: the sweep calls getPages() and awaits it. A getPages()
\* call settles within the 5 s interval, so no two sweeps await it at once; a
\* sweep may start while an earlier one awaits a connect().
SweepStart ==
    /\ running
    /\ CanAdd(tasks)
    /\ ~BagIn(Task("sweep", "getPages", ""), tasks)
    /\ tasks' = AddTask(tasks, Task("sweep", "getPages", ""))
    /\ lastOp' = NoOp
    /\ UNCHANGED <<running, pageState, browserWs, sessions, detached>>
    /\ UNCHANGED Others

\* getPages() resolved with `list`: sessions of pages not listed are closed and
\* deleted, then the registration loop runs to its first await or to its end.
SweepFetched(t, list) ==
    /\ running
    /\ BagIn(t, tasks) /\ t.kind = "sweep" /\ t.pc = "getPages"
    /\ LET pageIds == {list[i] : i \in DOMAIN list}
           gone == {q \in DOMAIN sessions : ~SweepKeeps(pageIds, q)}
           after == CloseAll(sessions, detached, gone)
           me == [t EXCEPT !.todo = list, !.fetched = pageIds, !.hist = "fetched"]
       IN  SweepLoop(me, after.reg, after.det, Dirty(RemoveTask(tasks, t), gone # {}))
    /\ UNCHANGED <<running, pageState, browserWs>>
    /\ UNCHANGED Others

\* getPages() threw (the browser is unreachable): the catch block calls
\* startTargetDiscovery() unless a browser socket is open; that call opens a
\* new browser socket (reopen) or gives up silently.
SweepFetchFail(t, reopen) ==
    /\ running
    /\ BagIn(t, tasks) /\ t.kind = "sweep" /\ t.pc = "getPages"
    /\ tasks' = RemoveTask(tasks, t)
    /\ IF browserWs # "open" /\ reopen
       THEN browserWs' = "open"
       ELSE UNCHANGED browserWs
    /\ lastOp' = NoOp
    /\ UNCHANGED <<running, pageState, sessions, detached>>
    /\ UNCHANGED Others

\* browserWs 'close' / 'error': this.browserWs = null.
BrowserWsClosed ==
    /\ running
    /\ browserWs = "open"
    /\ browserWs' = "null"
    /\ lastOp' = NoOp
    /\ UNCHANGED <<running, pageState, sessions, detached, tasks>>
    /\ UNCHANGED Others

\* The browser opens / closes page p while no browser socket is open: the
\* daemon is not told.
BrowserCreate(p) ==
    /\ running
    /\ browserWs # "open"
    /\ pageState[p] = "unborn"
    /\ pageState' = [pageState EXCEPT ![p] = "live"]
    /\ lastOp' = NoOp
    /\ UNCHANGED <<running, browserWs, sessions, detached, tasks>>
    /\ UNCHANGED Others

BrowserDestroy(p) ==
    /\ running
    /\ browserWs # "open"
    /\ pageState[p] = "live"
    /\ pageState' = [pageState EXCEPT ![p] = "gone"]
    /\ lastOp' = NoOp
    /\ UNCHANGED <<running, browserWs, sessions, detached, tasks>>
    /\ UNCHANGED Others

\* The browser opens page p and browserWs gets 'message' with
\* Target.targetCreated: the handler calls getPages() and awaits it.
TargetCreated(p) ==
    /\ running
    /\ browserWs = "open"
    /\ pageState[p] = "unborn"
    /\ CanAdd(tasks)
    /\ pageState' = [pageState EXCEPT ![p] = "live"]
    /\ tasks' = AddTask(tasks, Task("push", "getPages", p))
    /\ lastOp' = NoOp
    /\ UNCHANGED <<running, browserWs, sessions, detached>>
    /\ UNCHANGED Others

\* The push handler's getPages() resolved: if the page is listed,
\* registerPage(page) runs: a tracked page returns true at once; otherwise a
\* PageSession is constructed and connect() awaited.
PushFetched(t) ==
    /\ running
    /\ BagIn(t, tasks) /\ t.kind = "push" /\ t.pc = "getPages"
    /\ IF t.page \notin LivePages
       THEN /\ tasks' = RemoveTask(tasks, t)
            /\ lastOp' = NoOp
       ELSE IF RegisterHas(sessions, t.page)
       THEN /\ tasks' = RemoveTask(tasks, t)
            /\ lastOp' = [op |-> "registerPage", pageId |-> t.page, at |-> "call",
                          ret |-> "true"]
       ELSE /\ NumSessions(sessions, detached, tasks) < MaxSessions
            /\ tasks' = AddTask(RemoveTask(tasks, t), [t EXCEPT !.pc = "connect"])
            /\ lastOp' = [op |-> "registerPage", pageId |-> t.page, at |-> "call",
                          ret |-> "pending"]
    /\ UNCHANGED <<running, pageState, browserWs, sessions, detached>>
    /\ UNCHANGED Others

\* The push handler's getPages() threw: caught, nothing is done.
PushFetchFail(t) ==
    /\ running
    /\ BagIn(t, tasks) /\ t.kind = "push" /\ t.pc = "getPages"
    /\ tasks' = RemoveTask(tasks, t)
    /\ lastOp' = NoOp
    /\ UNCHANGED <<running, pageState, browserWs, sessions, detached>>
    /\ UNCHANGED Others

\* `if (targetId && this.sessions.has(targetId))` of the targetDestroyed
\* branch.
DestroyedHasWrong(reg, targetId) == FALSE
DestroyedHas(reg, targetId) == targetId \in DOMAIN reg

\* The browser closes page p and browserWs gets 'message' with
\* Target.targetDestroyed: a tracked session is closed and deleted.
TargetDestroyed(p) ==
    /\ running
    /\ browserWs = "open"
    /\ pageState[p] = "live"
    /\ pageState' = [pageState EXCEPT ![p] = "gone"]
    /\ LET gone == IF DestroyedHas(sessions, p) THEN {p} ELSE {}
           after == CloseAll(sessions, detached, gone)
       IN  /\ sessions' = after.reg
           /\ detached' = after.det
           /\ tasks' = Dirty(tasks, gone # {})
    /\ lastOp' = [op |-> "targetDestroyed", pageId |-> p,
                  tracked |-> p \in DOMAIN sessions]
    /\ UNCHANGED <<running, browserWs>>
    /\ UNCHANGED Others

\* POST /sessions with body {pageId: p, webSocketUrl}: 200 'exists' with the
\* tracked session's stats; else a PageSession is constructed and connect()
\* awaited (code 0: not answered yet). prev: the code of the step before, if
\* that was an answer to POST /sessions for the same pageId.
PrevCode(p) ==
    IF lastOp.op = "POST /sessions" /\ lastOp.pageId = p THEN lastOp.code ELSE 0

PostSessions(p) ==
    /\ running
    /\ IF PostHas(sessions, p)
       THEN /\ lastOp' = [op |-> "POST /sessions", pageId |-> p, code |-> 200,
                          status |-> "exists", stats |-> GetStats(sessions[p]),
                          prev |-> PrevCode(p)]
            /\ UNCHANGED tasks
       ELSE /\ NumSessions(sessions, detached, tasks) < MaxSessions
            /\ CanAdd(tasks)
            /\ tasks' = AddTask(tasks, Task("post", "connect", p))
            /\ lastOp' = [op |-> "POST /sessions", pageId |-> p, code |-> 0,
                          status |-> "", stats |-> <<>>, prev |-> PrevCode(p)]
    /\ UNCHANGED <<running, pageState, browserWs, sessions, detached>>
    /\ UNCHANGED Others

\* DELETE /sessions/:pageId: `if (!session)` answers 404, else the session is
\* closed and deleted and the answer is 200.
DeleteHasWrong(reg, pageId) == TRUE
DeleteHas(reg, pageId) == pageId \in DOMAIN reg

DeleteCode(p) == IF DeleteHas(sessions, p) THEN 200 ELSE 404

DeleteEffect(p) ==
    /\ running
    /\ LET after == CloseAll(sessions, detached, {p} \cap DOMAIN sessions)
       IN  /\ sessions' = after.reg
           /\ detached' = after.det
           /\ tasks' = Dirty(tasks, p \in DOMAIN sessions)

DeleteSession(p) ==
    /\ DeleteEffect(p)
    /\ lastOp' = NoOp
    /\ UNCHANGED <<running, pageState, browserWs>>
    /\ UNCHANGED Others

\* What handler t does when the connect() it awaits resolves (ok) or rejects,
\* the registry and the detached sessions being reg0 and det0 by then:
\* registerPage and POST /sessions insert on success; the sweep then goes on
\* with its loop.
Continue(t, ok, reg0, det0) ==
    LET after == IF ok THEN Insert(reg0, det0, t.page, Connected(NewSession(t.page)))
                 ELSE [reg |-> reg0, det |-> det0]
        rest == Dirty(RemoveTask(tasks, t), after.reg # sessions)
    IN  IF t.kind = "sweep"
        THEN SweepLoop([t EXCEPT !.hist = Resumed(t.hist, ok)],
                       after.reg, after.det, rest)
        ELSE /\ sessions' = after.reg
             /\ detached' = after.det
             /\ tasks' = rest
             /\ lastOp' = IF t.kind = "post"
                          THEN [op |-> "POST /sessions", pageId |-> t.page,
                                code |-> IF ok THEN 201 ELSE 500,
                                status |-> IF ok THEN "created" ELSE "error",
                                stats |-> <<>>, prev |-> 0]
                          ELSE [op |-> "registerPage", pageId |-> t.page, at |-> "resume",
                                ret |-> IF ok THEN "true" ELSE "false"]

\* The socket of t's session opened and Runtime.enable and Network.enable were
\* answered: connect() resolves and the handler goes on.
ConnectResolved(t) ==
    /\ running
    /\ BagIn(t, tasks) /\ t.pc = "connect"
    /\ t.page \in LivePages
    /\ Continue(t, TRUE, sessions, detached)
    /\ UNCHANGED <<running, pageState, browserWs>>
    /\ UNCHANGED Others

\* The socket opened but an enable command failed or timed out: connect()
\* rejects; the socket is left open, the session is never inserted.
ConnectRejected(t) ==
    /\ running
    /\ BagIn(t, tasks) /\ t.pc = "connect"
    /\ t.page \in LivePages
    /\ Continue(t, FALSE, sessions, [detached EXCEPT ![t.page].never = @ + 1])
    /\ UNCHANGED <<running, pageState, browserWs>>
    /\ UNCHANGED Others

\* The socket of t's session fails before connect() settled: 'error' and/or
\* 'close'. The close handler sets ws = null and, the session not being
\* closed, calls onClose. Whether connect() then rejects (the error handler at
\* readyState CONNECTING, or the pending enable command timing out) or never
\* settles depends on the readyState the ws library reports to the error
\* handler: if it never settles, the handler never resumes.
SocketError(t, rejects) ==
    /\ running
    /\ BagIn(t, tasks) /\ t.pc = "connect"
    /\ LET after == OnClose(sessions, detached, t.page)
       IN  IF rejects
           THEN Continue(t, FALSE, after.reg, after.det)
           ELSE /\ sessions' = after.reg
                /\ detached' = after.det
                /\ tasks' = Dirty(RemoveTask(tasks, t), after.reg # sessions)
                /\ lastOp' = NoOp
    /\ UNCHANGED <<running, pageState, browserWs>>
    /\ UNCHANGED Others

\* The open socket of the entry of pageId p closes (the page went away, the
\* browser died): ws = null and, the session not being closed, onClose deletes
\* the registry entry of its pageId.
SocketClose(p) ==
    /\ running
    /\ p \in DOMAIN sessions
    /\ IsConnected(sessions[p])
    /\ LET after == OnClose([sessions EXCEPT ![p].ws = "null"], detached, p)
       IN  /\ sessions' = after.reg
           /\ detached' = after.det
    /\ tasks' = Dirty(tasks, TRUE)
    /\ lastOp' = NoOp
    /\ UNCHANGED <<running, pageState, browserWs>>
    /\ UNCHANGED Others

\* The same for a detached session of pageId p: its onClose deletes whatever
\* session is the registry entry of p by now.
DetachedSocketClose(p, was) ==
    /\ running
    /\ IF was THEN detached[p].was > 0 ELSE detached[p].never > 0
    /\ LET det == IF was THEN [detached EXCEPT ![p].was = @ - 1]
                  ELSE [detached EXCEPT ![p].never = @ - 1]
           after == OnClose(sessions, det, p)
       IN  /\ sessions' = after.reg
           /\ detached' = after.det
           /\ tasks' = Dirty(tasks, after.reg # sessions)
    /\ lastOp' = NoOp
    /\ UNCHANGED <<running, pageState, browserWs>>
    /\ UNCHANGED Others

\* handleMessage with Runtime.consoleAPICalled on the entry of pageId p: the
\* message gets the next consoleId and is pushed into the console buffer.
ConsoleEvent(p) ==
    /\ running
    /\ p \in DOMAIN sessions
    /\ IsConnected(sessions[p])
    /\ sessions[p].consoleId <= MaxConsole
    /\ sessions' = [sessions EXCEPT ![p] = OnConsole(@)]
    /\ lastOp' = NoOp
    /\ UNCHANGED <<running, pageState, browserWs, detached, tasks>>
    /\ UNCHANGED Others

\* stop(), after which the process exits: the interval is cleared, the browser
\* socket and every registry session are closed, the registry is cleared;
\* suspended handlers end with the process.
Stop ==
    /\ running
    /\ running' = FALSE
    /\ browserWs' = "null"
    /\ LET after == CloseAll(sessions, detached, DOMAIN sessions)
       IN  /\ sessions' = after.reg
           /\ detached' = after.det
    /\ tasks' = EmptyBag
    /\ lastOp' = NoOp
    /\ UNCHANGED pageState
    /\ UNCHANGED Others

Next ==
    \/ SweepStart
    \/ \E t \in BagToSet(tasks) : \E list \in Perms(LivePages) : SweepFetched(t, list)
    \/ \E t \in BagToSet(tasks) : \E reopen \in BOOLEAN : SweepFetchFail(t, reopen)
    \/ BrowserWsClosed
    \/ \E p \in PageIds : BrowserCreate(p)
    \/ \E p \in PageIds : BrowserDestroy(p)
    \/ \E p \in PageIds : TargetCreated(p)
    \/ \E t \in BagToSet(tasks) : PushFetched(t)
    \/ \E t \in BagToSet(tasks) : PushFetchFail(t)
    \/ \E p \in PageIds : TargetDestroyed(p)
    \/ \E p \in PageIds : PostSessions(p)
    \/ \E p \in PageIds : DeleteSession(p)
    \/ \E t \in BagToSet(tasks) : ConnectResolved(t)
    \/ \E t \in BagToSet(tasks) : ConnectRejected(t)
    \/ \E t \in BagToSet(tasks) : \E rejects \in BOOLEAN : SocketError(t, rejects)
    \/ \E p \in PageIds : SocketClose(p)
    \/ \E p \in PageIds : \E was \in BOOLEAN : DetachedSocketClose(p, was)
    \/ \E p \in PageIds : ConsoleEvent(p)
    \/ Stop

Spec == Init /\ [][Next]_vars

\* ------------------------------------------------------- the HTTP routes
\* CDPDaemon.handleRequest: the session routes and the log routes.
MaxLogs == 2         \* console messages one PageSession receives (HTTP routes)

RequestIds == {"r1"}

\* A request `op` for pageId with argument arg (<<>> if none) and the status
\* code and data it was answered with.
Answer(op, pageId, arg, code, data) ==
    [op |-> op, pageId |-> pageId, arg |-> arg, code |-> code, data |-> data]

\* POST /sessions without pageId or webSocketUrl in the body.
PostSessionsInvalid ==
    /\ running
    /\ lastOp' = [op |-> "POST /sessions", pageId |-> "", code |-> 400,
                  status |-> "", stats |-> <<>>, prev |-> 0]
    /\ UNCHANGED <<running, pageState, browserWs, sessions, detached, tasks>>
    /\ UNCHANGED Others

\* DELETE /sessions/:pageId, with its answer.
HttpDeleteSession(p) ==
    /\ DeleteEffect(p)
    /\ lastOp' = Answer("DELETE /sessions", p, <<>>, DeleteCode(p), <<>>)
    /\ UNCHANGED <<running, pageState, browserWs>>
    /\ UNCHANGED Others

\* `this.sessions.get(pageId)` / `if (!session)` of the log routes.
LogsHasWrong(reg, pageId) == TRUE
LogsHas(reg, pageId) == pageId \in DOMAIN reg

\* getConsoleLogs(count) / getNetworkLogs(count); last is <<>> when the query
\* has no `last` parameter, else <<count>>.
GetLogsWrong(buffer, last) ==
    IF last = <<>> THEN CBGetAll(buffer) ELSE CBGetLast(buffer, last[1])
GetLogs(buffer, last) ==
    IF last = <<>> THEN CBGetAll(buffer) ELSE Reverse(CBGetLast(buffer, last[1]))

\* getConsoleMessage(id): `this.consoleById.get(id)`, `if (!message)`.
HasMessageWrong(ps, id) ==
    \E i \in DOMAIN ps.consoleBuffer.buffer : ps.consoleBuffer.buffer[i] = id
HasMessage(ps, id) == id \in DOMAIN ps.consoleById

\* GET /logs/console/:pageId?last=
GetConsole(p, last) ==
    /\ running
    /\ lastOp' = IF LogsHas(sessions, p)
                 THEN Answer("GET /logs/console", p, last, 200,
                             GetLogs(sessions[p].consoleBuffer, last))
                 ELSE Answer("GET /logs/console", p, last, 404, <<>>)
    /\ UNCHANGED <<running, pageState, browserWs, sessions, detached, tasks>>
    /\ UNCHANGED Others

\* GET /logs/network/:pageId?last=
GetNetwork(p, last) ==
    /\ running
    /\ lastOp' = IF LogsHas(sessions, p)
                 THEN Answer("GET /logs/network", p, last, 200,
                             GetLogs(sessions[p].networkBuffer, last))
                 ELSE Answer("GET /logs/network", p, last, 404, <<>>)
    /\ UNCHANGED <<running, pageState, browserWs, sessions, detached, tasks>>
    /\ UNCHANGED Others

\* GET /logs/detail/:pageId/:messageId with a numeric messageId.
GetDetail(p, id) ==
    /\ running
    /\ lastOp' = IF ~LogsHas(sessions, p)
                 THEN Answer("GET /logs/detail", p, <<id>>, 404, <<>>)
                 ELSE IF ~HasMessage(sessions[p], id)
                 THEN Answer("GET /logs/detail", p, <<id>>, 404, <<>>)
                 ELSE Answer("GET /logs/detail", p, <<id>>, 200,
                             <<sessions[p].consoleById[id]>>)
    /\ UNCHANGED <<running, pageState, browserWs, sessions, detached, tasks>>
    /\ UNCHANGED Others

\* DELETE /logs/:pageId
DeleteLogs(p) ==
    /\ running
    /\ IF LogsHas(sessions, p)
       THEN /\ sessions' = [sessions EXCEPT ![p] = ClearLogs(@)]
            /\ lastOp' = Answer("DELETE /logs", p, <<>>, 200, <<>>)
       ELSE /\ sessions' = sessions
            /\ lastOp' = Answer("DELETE /logs", p, <<>>, 404, <<>>)
    /\ UNCHANGED <<running, pageState, browserWs, detached, tasks>>
    /\ UNCHANGED Others

\* handleMessage with Runtime.consoleAPICalled on the entry of pageId p.
ConsoleLog(p) ==
    /\ running
    /\ p \in DOMAIN sessions
    /\ IsConnected(sessions[p])
    /\ sessions[p].consoleId <= MaxLogs
    /\ sessions' = [sessions EXCEPT ![p] = OnConsole(@)]
    /\ lastOp' = NoOp
    /\ UNCHANGED <<running, pageState, browserWs, detached, tasks>>
    /\ UNCHANGED Others

\* handleMessage with Network.requestWillBeSent for requestId: the merged
\* record is stored under its requestId and pushed into the network buffer.
NetworkLog(p, requestId) ==
    /\ running
    /\ p \in DOMAIN sessions
    /\ IsConnected(sessions[p])
    /\ sessions' = [sessions EXCEPT
           ![p] = OnNetwork(@, "Network.requestWillBeSent", requestId, Undefined)]
    /\ lastOp' = NoOp
    /\ UNCHANGED <<running, pageState, browserWs, detached, tasks>>
    /\ UNCHANGED Others

\* The daemon runs, the browser has its pages open, nothing is tracked.
InitHttp ==
    /\ BufIdle
    /\ WireIdle
    /\ ExtIdle
    /\ running = TRUE
    /\ pageState = [q \in PageIds |-> "live"]
    /\ browserWs = "open"
    /\ sessions = <<>>
    /\ detached = NoDetached
    /\ tasks = EmptyBag
    /\ lastOp = NoOp

\* The session routes: POST and DELETE /sessions and the connects they await.
NextHttp ==
    \/ PostSessionsInvalid
    \/ \E p \in PageIds : PostSessions(p)
    \/ \E t \in BagToSet(tasks) : ConnectResolved(t)
    \/ \E t \in BagToSet(tasks) : ConnectRejected(t)
    \/ \E t \in BagToSet(tasks) : \E rejects \in BOOLEAN : SocketError(t, rejects)
    \/ \E p \in PageIds : HttpDeleteSession(p)
    \/ \E p \in PageIds : SocketClose(p)
    \/ \E p \in PageIds : \E was \in BOOLEAN : DetachedSocketClose(p, was)

SpecHttp == InitHttp /\ [][NextHttp]_vars

\* The log routes, on sessions that POST /sessions made, one request at a
\* time, and that receive console and network events.
NextLogs ==
    \/ tasks = EmptyBag /\ \E p \in PageIds : PostSessions(p)
    \/ \E t \in BagToSet(tasks) : ConnectResolved(t)
    \/ \E p \in PageIds : \E last \in {<<>>, <<1>>, <<2>>} : GetConsole(p, last)
    \/ \E p \in PageIds : \E last \in {<<>>, <<1>>, <<2>>} : GetNetwork(p, last)
    \/ \E p \in PageIds : \E id \in 0..MaxLogs : GetDetail(p, id)
    \/ \E p \in PageIds : DeleteLogs(p)
    \/ \E p \in PageIds : ConsoleLog(p)
    \/ \E p \in PageIds : \E requestId \in RequestIds : NetworkLog(p, requestId)
    \/ \E p \in PageIds : SocketClose(p)

SpecLogs == InitHttp /\ [][NextLogs]_vars

\* ------------------------------------------------------ target discovery
\* The daemon beside a browser whose HTTP endpoint goes down and comes back:
\* getPages() and the fetch of /json/version succeed exactly while it is up.
\* The browser has one page, p1.

\* getPages() of sweep t threw: the catch block calls startTargetDiscovery()
\* unless a browser socket is open; that call awaits fetch(/json/version).
GetPagesFailed(t) ==
    /\ running
    /\ ~browserUp
    /\ BagIn(t, tasks) /\ t.kind = "sweep" /\ t.pc = "getPages"
    /\ tasks' = IF browserWs # "open"
                THEN AddTask(RemoveTask(tasks, t), [t EXCEPT !.pc = "version"])
                ELSE RemoveTask(tasks, t)
    /\ lastOp' = NoOp
    /\ UNCHANGED <<running, pageState, browserWs, sessions, detached>>
    /\ UNCHANGED Others

\* startTargetDiscovery's fetch settled: with an answer it opens a new browser
\* socket, without one the catch block swallows the error.
VersionFetched(t) ==
    /\ running
    /\ BagIn(t, tasks) /\ t.pc = "version"
    /\ tasks' = RemoveTask(tasks, t)
    /\ browserWs' = IF browserUp THEN "open" ELSE browserWs
    /\ lastOp' = NoOp
    /\ UNCHANGED <<running, pageState, sessions, detached>>
    /\ UNCHANGED Others

BrowserDown ==
    /\ running
    /\ browserUp
    /\ browserUp' = FALSE
    /\ UNCHANGED <<bufVars, wireVars, daemonVars, batch, router, restVars>>

BrowserBack ==
    /\ running
    /\ ~browserUp
    /\ browserUp' = TRUE
    /\ UNCHANGED <<bufVars, wireVars, daemonVars, batch, router, restVars>>

\* A sweep's getPages() settles.
SweepSettles ==
    \/ browserUp /\ \E t \in BagToSet(tasks) : \E list \in Perms(LivePages) :
                       SweepFetched(t, list)
    \/ \E t \in BagToSet(tasks) : GetPagesFailed(t)

\* A push handler's getPages() settles.
PushSettles ==
    \/ browserUp /\ \E t \in BagToSet(tasks) : PushFetched(t)
    \/ ~browserUp /\ \E t \in BagToSet(tasks) : PushFetchFail(t)

\* An awaited connect() settles.
ConnectSettles ==
    \/ browserUp /\ \E t \in BagToSet(tasks) : ConnectResolved(t)
    \/ ~browserUp /\ \E t \in BagToSet(tasks) : SocketError(t, TRUE)

NextDisc ==
    \/ SweepStart
    \/ SweepSettles
    \/ \E t \in BagToSet(tasks) : VersionFetched(t)
    \/ BrowserWsClosed
    \/ BrowserDown
    \/ BrowserBack
    \/ browserUp /\ \E p \in {"p1"} : TargetCreated(p)
    \/ browserUp /\ \E p \in {"p1"} : BrowserCreate(p)
    \/ PushSettles
    \/ ConnectSettles
    \/ ~browserUp /\ \E p \in {"p1"} : SocketClose(p)

\* setInterval keeps starting sweeps and every awaited fetch or connect
\* settles.
SpecDisc ==
    /\ Init
    /\ [][NextDisc]_vars
    /\ WF_vars(SweepStart)
    /\ WF_vars(SweepSettles)
    /\ WF_vars(\E t \in BagToSet(tasks) : VersionFetched(t))
    /\ WF_vars(PushSettles)
    /\ WF_vars(ConnectSettles)

\* ------------------------------------------------------------ /exec/:pageId
\* POST /exec/:pageId of the daemon. The route is in the bundled daemon
\* (bundle/daemon.mjs); handleRequest of the TypeScript source has no such
\* route and falls through to 404 'Not found'. exec.build is the build that
\* serves the request; exec.registered is whether the registry was given a
\* session for the page, which the session's 'close' handler deletes again.
Builds == {"bundle", "source"}

\* this.sessions.get(pageId) finds the session.
ExecTracked == exec.registered /\ wsRef

\* The peer's close frame arrived (or close() was called): readyState is
\* CLOSING, the 'close' event has not been emitted yet.
SocketClosing ==
    /\ wsOpen
    /\ wsOpen' = FALSE
    /\ UNCHANGED <<wKind, wsRef, messageId, cmds, handlers, timers, toAnswer, early>>
    /\ UNCHANGED <<bufVars, daemonVars, extVars>>

\* The socket emits 'close': PageSession sets this.ws = null and calls
\* onClose, which deletes the session from the registry.
SocketCloseEvent ==
    /\ ~wsOpen
    /\ wsRef
    /\ wsRef' = FALSE
    /\ UNCHANGED <<wKind, wsOpen, messageId, cmds, handlers, timers, toAnswer, early>>
    /\ UNCHANGED <<bufVars, daemonVars, extVars>>

ExecAnswer(code, data) ==
    [exec EXCEPT !.pc = "done", !.code = code, !.data = data]

\* The request arrives: the route's checks up to `await this.readBody(req)`.
ExecRequest ==
    /\ exec.pc \in {"idle", "done"}
    /\ LET e == [exec EXCEPT !.tracked = ExecTracked,
                             !.connected = wsRef /\ wsOpen,
                             !.waitId = 0, !.code = 0, !.data = <<>>]
       IN  exec' = IF exec.build = "source"
                   THEN [e EXCEPT !.pc = "done", !.code = 404, !.data = "Not found"]
                   ELSE IF ~ExecTracked
                   THEN [e EXCEPT !.pc = "done", !.code = 404,
                                  !.data = "Session not found"]
                   ELSE IF ~(wsRef /\ wsOpen)
                   THEN [e EXCEPT !.pc = "done", !.code = 503,
                                  !.data = "Session not connected"]
                   ELSE [e EXCEPT !.pc = "body"]
    /\ UNCHANGED <<wireVars, notExec>>

\* The body was read: 400 without `method`, else session.sendCommand, which
\* rejects at once when the session is no longer connected.
ExecBody(method) ==
    /\ exec.pc = "body"
    /\ IF method = "" \/ ~(wsRef /\ wsOpen)
       THEN /\ exec' = IF method = ""
                       THEN ExecAnswer(400, "CDP method required")
                       ELSE ExecAnswer(500, [kind |-> "not-connected"])
            /\ UNCHANGED wireVars
       ELSE /\ exec' = [exec EXCEPT !.pc = "await", !.waitId = messageId]
            /\ Send(method)
    /\ UNCHANGED notExec

\* The awaited command has settled.
ExecDue == exec.pc = "await" /\ cmds[exec.waitId].outcome # Pending

\* `await session.sendCommand(method, params)` resumes: 200 with the result,
\* or the catch block's 500 with the error's message.
ExecResume ==
    /\ ExecDue
    /\ LET outcome == cmds[exec.waitId].outcome
       IN  exec' = IF outcome.kind = "result"
                   THEN ExecAnswer(200, outcome.body)
                   ELSE ExecAnswer(500, outcome)
    /\ UNCHANGED <<wireVars, notExec>>

InitExec ==
    /\ BufIdle
    /\ DaemonIdle
    /\ OldIdle
    /\ BootIdle
    /\ conn = NoConn
    /\ disc = NoDisc
    /\ \E build \in Builds, registered \in BOOLEAN :
          /\ exec = [NoExec EXCEPT !.build = build, !.registered = registered]
          /\ wsOpen = registered
          /\ wsRef = registered
    /\ wKind = "session"
    /\ messageId = 1
    /\ cmds = <<>>
    /\ handlers = {}
    /\ timers = {}
    /\ toAnswer = {}
    /\ early = ""

\* A continuation that is due runs before the next event is handled.
NextExec ==
    \/ ExecResume
    \/ ~ExecDue /\ ExecRequest
    \/ ~ExecDue /\ \E method \in {"", "Page.navigate"} : ExecBody(method)
    \/ ~ExecDue /\ \E f \in toAnswer, err \in BOOLEAN : RemoteRespond(f, err)
    \/ ~ExecDue /\ \E id \in timers : TimerFire(id)
    \/ ~ExecDue /\ SocketClosing
    \/ ~ExecDue /\ SocketCloseEvent
    \/ ~ExecDue /\ Tick

SpecExec == InitExec /\ [][NextExec]_vars

\* ------------------------------------------------------- daemon lifecycle
\* Daemon processes (daemon-entry.ts -> runDaemon -> CDPDaemon.start), the
\* control port they listen on, and DaemonClient.startDaemon / stopDaemon
\* probing GET /health.
MaxProcs == 2        \* daemon processes spawned
MaxSweeps == 2       \* sweeps one daemon process runs

DefaultBufferSize == 500
StartMaxWaitMs == 5000
StopMaxWaitMs == 3000
PollSleepMs == 100
HealthTimeoutMs == 1000

\* --buffer-size values a daemon is started with.
BufferArgs == {-1, 0, BufferSize}

\* `if (options.bufferSize) args.push('--buffer-size', ...)`: a falsy option
\* is not passed on, and the daemon's constructor takes its default.
ClientBufferSize(opt) == IF opt = 0 THEN DefaultBufferSize ELSE opt

\* runDaemon(config): `new CDPDaemon(config)` keeps config.bufferSize as it is
\* given; nothing is listening, no sweep runs yet.
Spawned(by, bufferSize) ==
    [state |-> "starting", bufferSize |-> bufferSize, by |-> by, listens |-> 0,
     sweeps |-> 0, tracked |-> FALSE, error |-> "", exitCode |-> -1]

\* DaemonClient.isRunning: GET /health is answered by a daemon that listens.
Healthy == port > 0

\* server.on('error') with EADDRINUSE rejects start(); runDaemon rejects and
\* daemon-entry's catch calls process.exit(1).
ListenFailedWrong(pr) ==
    [pr EXCEPT !.error = "Port already in use", !.listens = @ + 1]
ListenFailed(pr) ==
    [pr EXCEPT !.state = "exited", !.error = "Port already in use",
               !.exitCode = 1, !.listens = @ + 1]

\* daemon-entry run by hand (or by another client) with --buffer-size.
Launch(bufferSize) ==
    /\ Len(procs) + (IF call.pc = "spawn" THEN 1 ELSE 0) < MaxProcs
    /\ procs' = Append(procs, Spawned("direct", bufferSize))
    /\ UNCHANGED <<port, call>>
    /\ UNCHANGED notBoot

\* CDPDaemon.start: server.listen(port, '127.0.0.1', cb). The callback starts
\* the sweep interval and target discovery; a bound port emits 'error'.
Listen(i) ==
    /\ procs[i].state = "starting"
    /\ IF port = 0
       THEN /\ port' = i
            /\ procs' = [procs EXCEPT ![i].state = "listening", ![i].listens = @ + 1]
       ELSE /\ procs' = [procs EXCEPT ![i] = ListenFailed(procs[i])]
            /\ UNCHANGED port
    /\ UNCHANGED call
    /\ UNCHANGED notBoot

\* One run of the sweep interval's callback with an untracked page listed:
\* registerPage constructs a PageSession, whose CircularBuffer constructor
\* throws for a non-positive capacity; the sweep's catch swallows the error.
BootSweep(i) ==
    /\ procs[i].state = "listening"
    /\ procs[i].sweeps < MaxSweeps
    /\ procs' = [procs EXCEPT ![i].sweeps = @ + 1,
                              ![i].tracked = @ \/ ~CBThrows(procs[i].bufferSize)]
    /\ UNCHANGED <<port, call>>
    /\ UNCHANGED notBoot

\* The setImmediate callback of POST /shutdown, or the SIGINT/SIGTERM
\* handler: stop() closes the server, then process.exit(0).
Exit(i) ==
    /\ procs[i].state \in {"listening", "stopping"}
    /\ procs' = [procs EXCEPT ![i].state = "exited", ![i].exitCode = 0]
    /\ port' = IF port = i THEN 0 ELSE port
    /\ UNCHANGED call
    /\ UNCHANGED notBoot

\* startDaemon(options) up to its first `await this.isRunning()`.
StartCall(opt) ==
    /\ call.pc = "idle"
    /\ Len(procs) < MaxProcs
    /\ call' = IF Healthy
               THEN [NoClientCall EXCEPT !.op = "start", !.pc = "done",
                                         !.opt = opt, !.result = "already"]
               ELSE [NoClientCall EXCEPT !.op = "start", !.pc = "spawn", !.opt = opt]
    /\ UNCHANGED <<procs, port>>
    /\ UNCHANGED notBoot

\* spawn(process.execPath, [daemon-entry.js, ...], { detached: true })
StartSpawn ==
    /\ call.op = "start"
    /\ call.pc = "spawn"
    /\ procs' = Append(procs, Spawned("client", ClientBufferSize(call.opt)))
    /\ call' = [call EXCEPT !.pc = "poll", !.spawned = @ + 1]
    /\ UNCHANGED port
    /\ UNCHANGED notBoot

\* What the loop of startDaemon returns when a probe succeeds.
StartResultWrong(healthy) == "started"
StartResult(healthy) == IF healthy THEN "started" ELSE ""

\* One turn of `while (Date.now() - start < maxWait)`: a probe that succeeds
\* returns; one that fails took d ms, and the loop sleeps.
StartPoll(d) ==
    /\ call.op = "start"
    /\ call.pc = "poll"
    /\ call.elapsed < StartMaxWaitMs
    /\ call' = IF StartResult(Healthy) # ""
               THEN [call EXCEPT !.pc = "done", !.result = StartResult(Healthy)]
               ELSE [call EXCEPT !.elapsed = @ + d + PollSleepMs]
    /\ UNCHANGED <<procs, port>>
    /\ UNCHANGED notBoot

\* throw new Error('Daemon failed to start within timeout')
StartTimeout ==
    /\ call.op = "start"
    /\ call.pc = "poll"
    /\ call.elapsed >= StartMaxWaitMs
    /\ call' = [call EXCEPT !.pc = "done", !.result = "timeout"]
    /\ UNCHANGED <<procs, port>>
    /\ UNCHANGED notBoot

\* stopDaemon() up to its first probe: `if (!await this.isRunning()) return false`.
StopCall ==
    /\ call.pc = "idle"
    /\ call' = IF Healthy
               THEN [NoClientCall EXCEPT !.op = "stop", !.pc = "shutdown"]
               ELSE [NoClientCall EXCEPT !.op = "stop", !.pc = "done", !.result = "false"]
    /\ UNCHANGED <<procs, port>>
    /\ UNCHANGED notBoot

\* POST /shutdown: the daemon that listens answers 200 and schedules stop();
\* a failed request is ignored.
StopSend ==
    /\ call.op = "stop"
    /\ call.pc = "shutdown"
    /\ call' = [call EXCEPT !.pc = "poll", !.sent = TRUE]
    /\ procs' = IF Healthy THEN [procs EXCEPT ![port].state = "stopping"] ELSE procs
    /\ UNCHANGED port
    /\ UNCHANGED notBoot

\* `return !await this.isRunning()` and the loop's `return true`.
StopResultWrong(healthy) == "true"
StopResult(healthy) == IF healthy THEN "false" ELSE "true"

\* One turn of stopDaemon's loop.
StopPoll(d) ==
    /\ call.op = "stop"
    /\ call.pc = "poll"
    /\ call.elapsed < StopMaxWaitMs
    /\ call' = IF StopResult(Healthy) = "true"
               THEN [call EXCEPT !.pc = "done", !.result = "true"]
               ELSE [call EXCEPT !.elapsed = @ + d + PollSleepMs]
    /\ UNCHANGED <<procs, port>>
    /\ UNCHANGED notBoot

\* The wait is over: one last probe decides.
StopFinal ==
    /\ call.op = "stop"
    /\ call.pc = "poll"
    /\ call.elapsed >= StopMaxWaitMs
    /\ call' = [call EXCEPT !.pc = "done", !.result = StopResult(Healthy)]
    /\ UNCHANGED <<procs, port>>
    /\ UNCHANGED notBoot

\* The call has returned; the client may make another.
CallReturn ==
    /\ call.pc = "done"
    /\ call' = NoClientCall
    /\ UNCHANGED <<procs, port>>
    /\ UNCHANGED notBoot

\* No daemon runs; the control port is free or held by another program.
InitBoot ==
    /\ BufIdle
    /\ WireIdle
    /\ DaemonIdle
    /\ OldIdle
    /\ exec = NoExec
    /\ conn = NoConn
    /\ disc = NoDisc
    /\ procs = <<>>
    /\ port \in {0, -1}
    /\ call = NoClientCall

\* Daemon processes started by hand, with any --buffer-size.
NextBoot ==
    \/ \E bufferSize \in BufferArgs : Launch(bufferSize)
    \/ \E i \in DOMAIN procs : Listen(i)
    \/ \E i \in DOMAIN procs : BootSweep(i)
    \/ \E i \in DOMAIN procs : Exit(i)

SpecBoot == InitBoot /\ [][NextBoot]_vars

\* A DaemonClient making startDaemon and stopDaemon calls, beside daemons
\* started by hand and daemons that exit on a signal.
NextClient ==
    \/ \E bufferSize \in {BufferSize} : Launch(bufferSize)
    \/ \E i \in DOMAIN procs : Listen(i)
    \/ \E i \in DOMAIN procs : Exit(i)
    \/ \E opt \in {0, BufferSize} : StartCall(opt)
    \/ StartSpawn
    \/ \E d \in {0, HealthTimeoutMs} : StartPoll(d)
    \/ StartTimeout
    \/ StopCall
    \/ StopSend
    \/ \E d \in {0, HealthTimeoutMs} : StopPoll(d)
    \/ StopFinal
    \/ CallReturn

SpecClient == InitBoot /\ [][NextClient]_vars

\* ------------------------------------------------- PageSession event frames
\* One connected PageSession: commands sent on its socket and answered, and
\* event frames (no id) of any method arriving on it. Every 'message'
\* listener runs for a frame: handleMessage and the messageHandler of each
\* command that is waiting.
MaxFrames == 3       \* event frames the session receives

EventMethods ==
    NetworkMethods \cup {"Runtime.consoleAPICalled", "Runtime.exceptionThrown",
                         "Page.loadEventFired", "Runtime.enable"}

NoFrame == [op |-> "frame", n |-> 0, method |-> "", requestId |-> "", v |-> 0,
            waiting |-> {}]

\* The socket of session p emits 'message' with an event frame.
SessionEvent(p, method, requestId, v) ==
    /\ wsOpen
    /\ p \in DOMAIN sessions
    /\ lastOp.n < MaxFrames
    /\ Dispatch([id |-> Undefined, err |-> FALSE,
                 body |-> [id |-> Undefined, method |-> method]])
    /\ sessions' = [sessions EXCEPT ![p] = HandleMessage(@, method, requestId, v)]
    /\ lastOp' = [op |-> "frame", n |-> lastOp.n + 1, method |-> method,
                  requestId |-> requestId, v |-> v, waiting |-> handlers]
    /\ UNCHANGED <<wKind, wsOpen, wsRef, messageId, toAnswer, early>>
    /\ UNCHANGED <<running, pageState, browserWs, detached, tasks>>
    /\ UNCHANGED <<bufVars, extVars>>

\* The daemon tracks page p1 with a connected session that has logged nothing.
InitEvents ==
    /\ BufIdle
    /\ ExtIdle
    /\ running = TRUE
    /\ pageState = [q \in PageIds |-> "live"]
    /\ browserWs = "open"
    /\ sessions = [q \in {"p1"} |-> Connected(NewSession(q))]
    /\ detached = NoDetached
    /\ tasks = EmptyBag
    /\ lastOp = NoFrame
    /\ wKind = "session"
    /\ wsOpen = TRUE
    /\ wsRef = TRUE
    /\ messageId = 1
    /\ cmds = <<>>
    /\ handlers = {}
    /\ timers = {}
    /\ toAnswer = {}
    /\ early = ""

NextEvents ==
    \/ \E method \in {"Runtime.enable"} : SendCommand(method)
    \/ \E f \in toAnswer : RemoteRespond(f, FALSE)
    \/ \E method \in EventMethods, requestId \in RequestIds, v \in {1, 2} :
          SessionEvent("p1", method, requestId, v)

SpecEvents == InitEvents /\ [][NextEvents]_vars

\* ---------------------------------------------------- PageSession.connect
\* One connect() call: `new WebSocket(url)`, the 'open' handler running
\* enableLogging, the 'error' and 'close' handlers.
NoError == [kind |-> "none"]

\* The readyState the socket has when it emits 'error' for a failed
\* handshake. The ws library decides it; the versions that emit 'error'
\* through emitErrorAndClose have set CLOSING before.
ErrorReadyStates == {"CONNECTING", "CLOSING"}

\* `if (this.ws?.readyState === WebSocket.CONNECTING) reject(err)`
ErrorRejects(readyState) == readyState = "CONNECTING"

\* connect(): the socket is created and is connecting.
ConnectCall ==
    /\ conn.pc = "idle"
    /\ conn' = [conn EXCEPT !.pc = "connecting"]
    /\ wsRef' = TRUE
    /\ UNCHANGED <<wKind, wsOpen, messageId, cmds, handlers, timers, toAnswer, early>>
    /\ UNCHANGED notConn

\* The handshake succeeded: readyState is OPEN and 'open' is emitted.
SocketOpen ==
    /\ conn.pc = "connecting"
    /\ wsRef
    /\ ~wsOpen
    /\ wsOpen' = TRUE
    /\ conn' = [conn EXCEPT !.pc = "open"]
    /\ UNCHANGED <<wKind, wsRef, messageId, cmds, handlers, timers, toAnswer, early>>
    /\ UNCHANGED notConn

\* The 'open' handler: enableLogging() returns at once without a socket,
\* else sends Runtime.enable and awaits it.
EnableLogging ==
    /\ conn.pc = "open"
    /\ IF ~wsRef
       THEN /\ conn' = [conn EXCEPT !.pc = "resolved"]
            /\ UNCHANGED wireVars
       ELSE /\ conn' = [conn EXCEPT !.pc = "runtime", !.waitId = messageId]
            /\ Send("Runtime.enable")
    /\ UNCHANGED notConn

\* The awaited enable command has settled.
ConnDue ==
    \/ conn.pc = "open"
    \/ conn.pc \in {"runtime", "network"} /\ cmds[conn.waitId].outcome # Pending

\* enableLogging resumes: after Runtime.enable's result it sends
\* Network.enable (sendCommand rejects at once when the socket is gone);
\* after Network.enable's result connect() resolves; an enable command that
\* failed rejects connect() with its error.
ConnResume ==
    /\ conn.pc \in {"runtime", "network"}
    /\ cmds[conn.waitId].outcome # Pending
    /\ LET outcome == cmds[conn.waitId].outcome
       IN  IF outcome.kind # "result"
           THEN /\ conn' = [conn EXCEPT !.pc = "rejected", !.error = outcome]
                /\ UNCHANGED wireVars
           ELSE IF conn.pc = "network"
           THEN /\ conn' = [conn EXCEPT !.pc = "resolved"]
                /\ UNCHANGED wireVars
           ELSE IF ~(wsRef /\ wsOpen)
           THEN /\ conn' = [conn EXCEPT !.pc = "rejected",
                                        !.error = [kind |-> "not-connected"]]
                /\ UNCHANGED wireVars
           ELSE /\ conn' = [conn EXCEPT !.pc = "network", !.waitId = messageId]
                /\ Send("Network.enable")
    /\ UNCHANGED notConn

\* The handshake fails: the socket emits 'error' (the handler rejects only
\* while readyState is CONNECTING) and then 'close' (this.ws = null).
HandshakeError(readyState) ==
    /\ conn.pc = "connecting"
    /\ wsRef
    /\ ~wsOpen
    /\ conn' = IF ErrorRejects(readyState)
               THEN [conn EXCEPT !.pc = "rejected", !.errored = TRUE,
                                 !.error = [kind |-> "socket-error"]]
               ELSE [conn EXCEPT !.errored = TRUE]
    /\ wsRef' = FALSE
    /\ UNCHANGED <<wKind, wsOpen, messageId, cmds, handlers, timers, toAnswer, early>>
    /\ UNCHANGED notConn

InitConnect ==
    /\ BufIdle
    /\ DaemonIdle
    /\ OldIdle
    /\ exec = NoExec
    /\ BootIdle
    /\ conn = NoConn
    /\ disc = NoDisc
    /\ wKind = "session"
    /\ wsOpen = FALSE
    /\ wsRef = FALSE
    /\ messageId = 1
    /\ cmds = <<>>
    /\ handlers = {}
    /\ timers = {}
    /\ toAnswer = {}
    /\ early = ""

\* A continuation that is due runs before the next event is handled. Once
\* connect() has resolved the session's owner sends commands of its own.
NextConnect ==
    \/ ConnectCall
    \/ SocketOpen
    \/ EnableLogging
    \/ ConnResume
    \/ \E readyState \in ErrorReadyStates : HandshakeError(readyState)
    \/ ~ConnDue /\ conn.pc = "resolved" /\ \E method \in {"Page.navigate"} : SendCommand(method)
    \/ ~ConnDue /\ \E f \in toAnswer, err \in BOOLEAN : RemoteRespond(f, err)
    \/ ~ConnDue /\ \E id \in timers : TimerFire(id)
    \/ ~ConnDue /\ SocketClosed
    \/ ~ConnDue /\ Tick

SpecConnect == InitConnect /\ [][NextConnect]_vars

\* The same with the event loop running: a handler, timer or socket event
\* that is due is eventually run.
SpecConnectLive == InitConnect /\ [][NextConnect]_vars /\ WF_vars(NextConnect)

\* ------------------------------------------------------ console messages
\* One tracked PageSession receiving console events of both kinds, beside
\* the routes that read, clear and end it. More messages arrive than the
\* ring buffer holds.
MaxMsgs == 3         \* console messages the session receives

ConsoleMethods == {"Runtime.consoleAPICalled", "Runtime.exceptionThrown"}

\* The socket of the entry of pageId p emits 'message' with a console event.
ConsoleMsg(p, method) ==
    /\ running
    /\ p \in DOMAIN sessions
    /\ IsConnected(sessions[p])
    /\ sessions[p].consoleId <= MaxMsgs
    /\ sessions' = [sessions EXCEPT ![p] = HandleMessage(@, method, "", Undefined)]
    /\ lastOp' = [op |-> "console", pageId |-> p, method |-> method]
    /\ UNCHANGED <<running, pageState, browserWs, detached, tasks>>
    /\ UNCHANGED Others

\* The daemon tracks page p1 with a connected session that has logged nothing.
InitConsole ==
    /\ BufIdle
    /\ WireIdle
    /\ ExtIdle
    /\ running = TRUE
    /\ pageState = [q \in PageIds |-> "live"]
    /\ browserWs = "open"
    /\ sessions = [q \in {"p1"} |-> Connected(NewSession(q))]
    /\ detached = NoDetached
    /\ tasks = EmptyBag
    /\ lastOp = NoOp

NextConsole ==
    \/ \E method \in ConsoleMethods : ConsoleMsg("p1", method)
    \/ \E last \in {<<>>} \cup {<<n>> : n \in 0..MaxMsgs} : GetConsole("p1", last)
    \/ \E id \in 1..MaxMsgs : GetDetail("p1", id)
    \/ DeleteLogs("p1")
    \/ HttpDeleteSession("p1")

SpecConsole == InitConsole /\ [][NextConsole]_vars

\* ------------------------------------------------------ PageSession.close
\* One PageSession whose connect() has resolved, its owner calling close()
\* and sendCommand, and its socket. conn.sock is the state of the socket
\* object connect() created ("closing": readyState left OPEN, 'close' not yet
\* emitted), conn.closed the field `closed`, conn.onClose the number of
\* onCloseCallback() calls, conn.closeCalls the number of close() calls.
MaxCloses == 2       \* close() calls on one PageSession

\* `if (!this.closed && this.onCloseCallback)` of the 'close' handler.
CallsOnCloseWrong(closed) == TRUE
CallsOnClose(closed) == ~closed

\* close(): `this.closed = true; if (this.ws) { this.ws.close(); this.ws = null; }`
SessionClose ==
    /\ conn.pc = "resolved"
    /\ conn.closeCalls < MaxCloses
    /\ conn' = [conn EXCEPT !.closed = TRUE,
                            !.closeCalls = @ + 1,
                            !.sock = IF wsRef /\ @ = "open" THEN "closing" ELSE @]
    /\ wsRef' = FALSE
    /\ wsOpen' = IF wsRef THEN FALSE ELSE wsOpen
    /\ UNCHANGED <<wKind, messageId, cmds, handlers, timers, toAnswer, early>>
    /\ UNCHANGED notConn

\* The peer closes: readyState leaves OPEN, 'close' is not yet emitted.
PeerClosing ==
    /\ conn.sock = "open"
    /\ conn' = [conn EXCEPT !.sock = "closing"]
    /\ wsOpen' = FALSE
    /\ UNCHANGED <<wKind, wsRef, messageId, cmds, handlers, timers, toAnswer, early>>
    /\ UNCHANGED notConn

\* The socket emits 'close': `this.ws = null`, then onCloseCallback() unless
\* the session is closed.
SessionCloseEvent ==
    /\ conn.sock = "closing"
    /\ conn' = [conn EXCEPT !.sock = "closed",
                            !.onClose = IF CallsOnClose(conn.closed) THEN @ + 1 ELSE @]
    /\ wsRef' = FALSE
    /\ UNCHANGED <<wKind, wsOpen, messageId, cmds, handlers, timers, toAnswer, early>>
    /\ UNCHANGED notConn

InitClose ==
    /\ BufIdle
    /\ DaemonIdle
    /\ OldIdle
    /\ exec = NoExec
    /\ BootIdle
    /\ conn = [NoConn EXCEPT !.pc = "resolved", !.sock = "open"]
    /\ disc = NoDisc
    /\ wKind = "session"
    /\ wsOpen = TRUE
    /\ wsRef = TRUE
    /\ messageId = 1
    /\ cmds = <<>>
    /\ handlers = {}
    /\ timers = {}
    /\ toAnswer = {}
    /\ early = ""

NextClose ==
    \/ SessionClose
    \/ PeerClosing
    \/ SessionCloseEvent
    \/ \E method \in {"Page.navigate"} : SendNotConnected(method)
    \/ \E method \in {"Page.navigate"} : SendCommand(method)
    \/ \E f \in toAnswer, err \in BOOLEAN : RemoteRespond(f, err)
    \/ \E id \in timers : TimerFire(id)
    \/ Tick

SpecClose == InitClose /\ [][NextClose]_vars

\* ------------------------------------------------- browser discovery sockets
\* The sockets startTargetDiscovery creates and the field this.browserWs.
\* disc.socks[i] is the state of the i-th socket: "connecting", "open",
\* "aborting" (close() before the handshake ended: 'error' and 'close' are
\* still to be emitted), "closing" (readyState CLOSING, 'close' still to be
\* emitted) or "closed". disc.ref is the index of the socket this.browserWs
\* refers to, 0 for null; disc.fetching counts the startTargetDiscovery calls
\* suspended at `await fetch(.../json/version)`.
MaxSocks == 3        \* discovery sockets created
MaxDiscCalls == 3    \* startTargetDiscovery calls

\* ws.close() on a socket in state st.
WsClose(st) ==
    IF st = "open" THEN "closing"
    ELSE IF st = "connecting" THEN "aborting"
    ELSE st

\* `if (this.browserWs) { this.browserWs.close(); }`
CloseRef(socks, ref) ==
    IF ref = 0 THEN socks ELSE [socks EXCEPT ![ref] = WsClose(@)]

\* start(): the listen callback runs startHealthCheck() and calls
\* startTargetDiscovery(), which suspends at its fetch.
DiscStart ==
    /\ disc = NoDisc
    /\ disc' = [disc EXCEPT !.timer = TRUE, !.fetching = 1, !.calls = 1]
    /\ UNCHANGED notDisc

\* `!this.browserWs || this.browserWs.readyState !== WebSocket.OPEN` of the
\* sweep's catch block.
NeedsDiscovery(d) == IF d.ref = 0 THEN TRUE ELSE d.socks[d.ref] # "open"

\* A sweep whose getPages() rejected: its catch block calls
\* startTargetDiscovery() unless the browser socket is open.
SweepCatch ==
    /\ disc.timer
    /\ disc.calls < MaxDiscCalls
    /\ NeedsDiscovery(disc)
    /\ disc' = [disc EXCEPT !.fetching = @ + 1, !.calls = @ + 1]
    /\ UNCHANGED notDisc

\* startTargetDiscovery resumes after its fetch. Without a usable answer it
\* returns; else it closes the socket this.browserWs refers to, creates a new
\* one and stores it.
DiscFetched(ok) ==
    /\ disc.fetching > 0
    /\ IF ok
       THEN /\ Len(disc.socks) < MaxSocks
            /\ disc' = [disc EXCEPT !.fetching = @ - 1,
                                    !.socks = Append(CloseRef(@, disc.ref), "connecting"),
                                    !.ref = Len(disc.socks) + 1]
       ELSE disc' = [disc EXCEPT !.fetching = @ - 1]
    /\ UNCHANGED notDisc

\* Socket i emits 'open'; sendBrowserCommand writes to this.browserWs if that
\* is open.
DiscOpen(i) ==
    /\ disc.socks[i] = "connecting"
    /\ disc' = [disc EXCEPT !.socks[i] = "open"]
    /\ UNCHANGED notDisc

\* The browser closes socket i: readyState CLOSING, 'close' not yet emitted.
DiscPeerClosing(i) ==
    /\ disc.socks[i] = "open"
    /\ disc' = [disc EXCEPT !.socks[i] = "closing"]
    /\ UNCHANGED notDisc

\* Socket i emits 'error' (its handshake failed or was aborted by close()):
\* `this.browserWs?.close(); this.browserWs = null;`. Its 'close' follows.
DiscError(i) ==
    /\ disc.socks[i] \in {"connecting", "aborting"}
    /\ disc' = [disc EXCEPT !.socks = CloseRef([@ EXCEPT ![i] = "closing"], disc.ref),
                            !.ref = 0]
    /\ UNCHANGED notDisc

\* Socket i emits 'close': `this.browserWs = null`.
DiscCloseEvent(i) ==
    /\ disc.socks[i] = "closing"
    /\ disc' = [disc EXCEPT !.socks[i] = "closed", !.ref = 0]
    /\ UNCHANGED notDisc

\* stop(): clearInterval, `this.browserWs.close(); this.browserWs = null`.
DiscStop ==
    /\ disc.timer
    /\ disc' = [disc EXCEPT !.timer = FALSE, !.stopped = TRUE,
                            !.socks = CloseRef(@, disc.ref), !.ref = 0]
    /\ UNCHANGED notDisc

InitBrowser == BufIdle /\ WireIdle /\ DaemonIdle /\ ExtIdle

NextBrowser ==
    \/ DiscStart
    \/ SweepCatch
    \/ \E ok \in BOOLEAN : DiscFetched(ok)
    \/ \E i \in DOMAIN disc.socks : DiscOpen(i)
    \/ \E i \in DOMAIN disc.socks : DiscPeerClosing(i)
    \/ \E i \in DOMAIN disc.socks : DiscError(i)
    \/ \E i \in DOMAIN disc.socks : DiscCloseEvent(i)
    \/ DiscStop

SpecBrowser == InitBrowser /\ [][NextBrowser]_vars

\* -------------------------------------------------------- CDPDaemon.stop
\* stop() and the handlers that are suspended when it runs. The process lives
\* on after stop() (running stays TRUE) until the `process.exit(0)` that
\* follows `await this.stop()`; stop() returns when server.close() has called
\* back, which it does once no request is being served. disc.timer: the
\* polling interval is armed; disc.stopped: stop() has run.
StopRun ==
    /\ running
    /\ ~disc.stopped
    /\ disc' = [disc EXCEPT !.timer = FALSE, !.stopped = TRUE]
    /\ browserWs' = "null"
    /\ LET after == CloseAll(sessions, detached, DOMAIN sessions)
       IN  /\ sessions' = after.reg
           /\ detached' = after.det
    /\ tasks' = Dirty(tasks, sessions # <<>>)
    /\ lastOp' = [op |-> "stop"]
    /\ UNCHANGED <<running, pageState>>
    /\ UNCHANGED <<bufVars, wireVars, oldExt, exec, bootVars, conn>>

\* server.close() calls back when no request is being served.
ServerClosed(ts) == \A t \in BagToSet(ts) : t.kind # "post"

\* `await this.stop(); process.exit(0)`: the process ends and every suspended
\* handler and every socket with it.
ExitAfterStop ==
    /\ running
    /\ disc.stopped
    /\ ServerClosed(tasks)
    /\ running' = FALSE
    /\ tasks' = EmptyBag
    /\ detached' = NoDetached
    /\ sessions' = <<>>
    /\ lastOp' = [op |-> "exit"]
    /\ UNCHANGED <<pageState, browserWs>>
    /\ UNCHANGED Others

InitStop ==
    /\ BufIdle
    /\ WireIdle
    /\ OldIdle
    /\ exec = NoExec
    /\ BootIdle
    /\ conn = NoConn
    /\ disc = [NoDisc EXCEPT !.timer = TRUE]
    /\ running = TRUE
    /\ pageState = [q \in PageIds |-> "unborn"]
    /\ browserWs = "open"
    /\ sessions = <<>>
    /\ detached = NoDetached
    /\ tasks = EmptyBag
    /\ lastOp = NoOp

\* Requests and browser events arrive until stop() has run; what is suspended
\* then resumes afterwards.
NextStop ==
    \/ ~disc.stopped /\ \E p \in PageIds : TargetCreated(p)
    \/ ~disc.stopped /\ \E p \in PageIds : PostSessions(p)
    \/ \E t \in BagToSet(tasks) : PushFetched(t)
    \/ \E t \in BagToSet(tasks) : PushFetchFail(t)
    \/ \E t \in BagToSet(tasks) : ConnectResolved(t)
    \/ \E t \in BagToSet(tasks) : ConnectRejected(t)
    \/ \E p \in PageIds : SocketClose(p)
    \/ \E p \in PageIds : \E was \in BOOLEAN : DetachedSocketClose(p, was)
    \/ StopRun
    \/ ExitAfterStop

SpecStop == InitStop /\ [][NextStop]_vars

\* ------------------------------------------------------- claims: SpecHttp
\* C17: POST /sessions answers 400, 200, 201 or 500; with 200 the pageId was
\* tracked, with 201 its session is in the registry afterwards; the step that
\* answers 400 or 500 leaves the registry as it was.
C17_PostAnswers ==
    [][lastOp'.op = "POST /sessions" =>
          /\ lastOp'.code \in {0, 200, 201, 400, 500}
          /\ lastOp'.code = 200 => lastOp'.pageId \in DOMAIN sessions
          /\ lastOp'.code = 201 => lastOp'.pageId \in DOMAIN sessions'
          /\ lastOp'.code \in {400, 500} => sessions' = sessions]_vars

\* C18: DELETE /sessions/:pageId of a tracked pageId answers 200, removes that
\* entry only and leaves no open session behind; of an untracked pageId it
\* answers 404 and changes nothing; a DELETE right after a DELETE of the same
\* pageId that answered 200 answers 404.
C18_DeleteAnswers ==
    [][lastOp'.op = "DELETE /sessions" =>
          LET p == lastOp'.pageId
          IN  /\ IF p \in DOMAIN sessions
                 THEN /\ lastOp'.code = 200
                      /\ sessions' = MapDelete(sessions, p)
                      /\ detached' = detached
                 ELSE /\ lastOp'.code = 404
                      /\ UNCHANGED <<sessions, detached, tasks>>
              /\ (lastOp.op = "DELETE /sessions" /\ lastOp.pageId = p) =>
                    lastOp'.code = 404]_vars

C18_Witness ==
    /\ lastOp.op = "DELETE /sessions"
    /\ lastOp.code = 200
    /\ lastOp.pageId = "p1"
    /\ "p2" \in DOMAIN sessions

\* ------------------------------------------------------- claims: SpecLogs
\* The elements of sequence q.
Elems(q) == {q[i] : i \in DOMAIN q}

\* C19: a log query changes no session state. Without a session for the
\* pageId it answers 404 with no data. With one, the console and network
\* queries answer 200 with the buffer's contents, or with its last `last`
\* entries in the buffer's order; the detail query answers 200 with the
\* message of the id asked for, an id the session issued, and 404 only for an
\* id that no message in the buffer has.
C19_LogQueries ==
    [][lastOp'.op \in {"GET /logs/console", "GET /logs/network", "GET /logs/detail"} =>
          LET p == lastOp'.pageId
              arg == lastOp'.arg
              data == lastOp'.data
              all == IF lastOp'.op = "GET /logs/network"
                     THEN CBGetAll(sessions[p].networkBuffer)
                     ELSE CBGetAll(sessions[p].consoleBuffer)
          IN  /\ UNCHANGED <<sessions, detached, tasks, running>>
              /\ IF p \notin DOMAIN sessions
                 THEN lastOp'.code = 404 /\ data = <<>>
                 ELSE IF lastOp'.op = "GET /logs/detail"
                 THEN /\ lastOp'.code \in {200, 404}
                      /\ lastOp'.code = 200 =>
                            /\ data = <<arg[1]>>
                            /\ 1 <= arg[1] /\ arg[1] < sessions[p].consoleId
                      /\ lastOp'.code = 404 => arg[1] \notin Elems(all)
                 ELSE /\ lastOp'.code = 200
                      /\ Len(data) = IF arg = <<>> THEN Len(all)
                                     ELSE Min(arg[1], Len(all))
                      /\ data = SubSeq(all, Len(all) - Len(data) + 1, Len(all))]_vars

C19_Witness ==
    /\ lastOp.op = "GET /logs/detail"
    /\ lastOp.code = 404
    /\ lastOp.pageId \in DOMAIN sessions
    /\ CBSize(sessions[lastOp.pageId].consoleBuffer) > 0

\* C20: DELETE /logs/:pageId of a tracked pageId answers 200 and empties that
\* session's two buffers and two indexes; its registration, socket, buffer
\* capacities and console id counter stay as they were, and so does every
\* other session. For an untracked pageId it answers 404 and changes nothing.
\* Every indexed console message has an id below the counter.
C20_ClearLogsOnly ==
    /\ [][lastOp'.op = "DELETE /logs" =>
             LET p == lastOp'.pageId
             IN  /\ UNCHANGED <<detached, tasks, running>>
                 /\ IF p \notin DOMAIN sessions
                    THEN lastOp'.code = 404 /\ sessions' = sessions
                    ELSE /\ lastOp'.code = 200
                         /\ DOMAIN sessions' = DOMAIN sessions
                         /\ \A q \in DOMAIN sessions \ {p} : sessions'[q] = sessions[q]
                         /\ CBSize(sessions'[p].consoleBuffer) = 0
                         /\ CBSize(sessions'[p].networkBuffer) = 0
                         /\ CBGetAll(sessions'[p].consoleBuffer) = <<>>
                         /\ CBGetAll(sessions'[p].networkBuffer) = <<>>
                         /\ sessions'[p].consoleById = <<>>
                         /\ sessions'[p].networkRequests = <<>>
                         /\ CBMaxSize(sessions'[p].consoleBuffer)
                               = CBMaxSize(sessions[p].consoleBuffer)
                         /\ CBMaxSize(sessions'[p].networkBuffer)
                               = CBMaxSize(sessions[p].networkBuffer)
                         /\ sessions'[p].ws = sessions[p].ws
                         /\ sessions'[p].closed = sessions[p].closed
                         /\ sessions'[p].pageId = sessions[p].pageId
                         /\ sessions'[p].consoleId = sessions[p].consoleId]_vars
    /\ [](\A q \in DOMAIN sessions :
             \A i \in DOMAIN sessions[q].consoleById : i < sessions[q].consoleId)

C20_Witness ==
    /\ {"p1", "p2"} \subseteq DOMAIN sessions
    /\ sessions["p1"].consoleId = 3
    /\ DOMAIN sessions["p1"].consoleById = {2}
    /\ CBGetAll(sessions["p1"].consoleBuffer) = <<2>>
    /\ CBSize(sessions["p2"].consoleBuffer) > 0
    /\ IsConnected(sessions["p1"])

\* ------------------------------------------------------- claims: SpecDisc
\* C15: once the browser answers again while the daemon has no browser
\* socket, a browser socket is eventually open again (push notifications are
\* received again), unless the browser goes down once more.
C15_DiscoveryReestablished ==
    (running /\ browserUp /\ browserWs = "null") ~> (browserWs = "open" \/ ~browserUp)

\* --------------------------------------------------------- claims: Spec
\* The open page connections held for pageId p: the entry's and the detached
\* sessions'.
OpenConnections(p) ==
    (IF p \in DOMAIN sessions /\ IsConnected(sessions[p]) THEN 1 ELSE 0)
        + detached[p].never + detached[p].was

\* C1: at every instant and for every pageId, the daemon holds at most one
\* PageSession with an open page connection for that pageId, whatever the
\* interleaving of the sweep, the push handler and POST /sessions.
C1_AtMostOneOpen == \A p \in PageIds : OpenConnections(p) <= 1

\* C2 as stated: when a sweep finishes and every connect it awaited succeeded,
\* the pageIds tracked are the ids of the page list it fetched.
C2_SweepReconcilesAlways ==
    (lastOp.op = "sweep-done" /\ lastOp.hist # "failed")
        => DOMAIN sessions = lastOp.fetched

\* C2, amended: when a sweep finishes, every connect it awaited succeeded and
\* no other path changed the registry between its fetch and its end, the
\* pageIds tracked are the ids of the page list it fetched.
C2_SweepReconciles ==
    (lastOp.op = "sweep-done" /\ lastOp.hist \in {"fetched", "alone"})
        => DOMAIN sessions = lastOp.fetched

\* C2 witness: a sweep that listed both pages and connected on its own just
\* finished; both are tracked, with open connections.
C2_Witness ==
    /\ lastOp.op = "sweep-done"
    /\ lastOp.hist = "alone"
    /\ lastOp.fetched = PageIds
    /\ DOMAIN sessions = PageIds
    /\ \A p \in PageIds : IsConnected(sessions[p])

\* C8: POST /sessions for a pageId that is tracked opens nothing, leaves the
\* registry unchanged and answers 200 'exists' with the entry's stats; for a
\* pageId not tracked it constructs one session and awaits its connect, and
\* its 201 answer leaves the pageId tracked with an open connection.
C8_SecondPostFindsExisting ==
    [][/\ (lastOp'.op = "POST /sessions" /\ lastOp'.code \in {0, 200}) =>
            IF lastOp'.pageId \in DOMAIN sessions
            THEN /\ lastOp'.code = 200
                 /\ lastOp'.status = "exists"
                 /\ lastOp'.stats = GetStats(sessions[lastOp'.pageId])
                 /\ UNCHANGED <<sessions, detached, tasks>>
            ELSE /\ lastOp'.code = 0
                 /\ NumSessions(sessions', detached', tasks')
                        = NumSessions(sessions, detached, tasks) + 1
                 /\ UNCHANGED <<sessions, detached>>
       /\ (lastOp'.op = "POST /sessions" /\ lastOp'.code = 201) =>
            /\ lastOp'.pageId \in DOMAIN sessions'
            /\ IsConnected(sessions'[lastOp'.pageId])
            /\ NumSessions(sessions', detached', tasks')
                   = NumSessions(sessions, detached, tasks)
      ]_vars

\* C8 witness: a POST /sessions was answered 201 and the next step, a second
\* POST /sessions for the same pageId, was answered 200 'exists' with the stats
\* of the connected session.
C8_Witness ==
    /\ lastOp.op = "POST /sessions"
    /\ lastOp.code = 200
    /\ lastOp.prev = 201
    /\ lastOp.status = "exists"
    /\ lastOp.stats = GetStats(sessions[lastOp.pageId])
    /\ lastOp.stats.connected
    /\ NumSessions(sessions, detached, tasks) = 1

\* C9: registerPage called for a pageId that is tracked returns true at once;
\* no PageSession is constructed, no connection opened, and the registry, its
\* sessions' buffers and connections are unchanged.
C9_RegisterTrackedIsNoOp ==
    [][(/\ lastOp'.op = "registerPage"
        /\ lastOp'.at = "call"
        /\ lastOp'.pageId \in DOMAIN sessions) =>
            /\ lastOp'.ret = "true"
            /\ UNCHANGED <<sessions, detached>>
            /\ NumSessions(sessions', detached', tasks')
                   = NumSessions(sessions, detached, tasks)
      ]_vars

\* C9 witness: registerPage just returned true for a tracked pageId whose
\* session holds a console message.
C9_Witness ==
    /\ lastOp.op = "registerPage"
    /\ lastOp.at = "call"
    /\ lastOp.ret = "true"
    /\ lastOp.pageId \in DOMAIN sessions
    /\ CBSize(sessions[lastOp.pageId].consoleBuffer) > 0
    /\ IsConnected(sessions[lastOp.pageId])

\* C10: whenever a PageSession stops being the registry entry of its pageId,
\* its connection is closed in that same step: no session that has left the
\* registry still holds an open connection.
C10_LeftMeansClosed == \A p \in PageIds : detached[p].was = 0

\* C14: a connect failure during reconciliation leaves the registry unchanged:
\* a step in which the connect() awaited by a sweep fails (it rejects, or its
\* socket fails) does not change the registry.
C14_ConnectFailureKeepsRegistry ==
    [][\A t \in BagToSet(tasks) :
          (/\ t.kind = "sweep"
           /\ \/ ConnectRejected(t)
              \/ \E rejects \in BOOLEAN : SocketError(t, rejects))
              => sessions' = sessions]_vars

\* C29: the step that handles Target.targetDestroyed for a tracked page p
\* removes p from the registry with its session closed (it is not left open
\* outside the registry) and leaves every other entry as it was; for an
\* untracked page the step changes neither the registry, nor the open
\* sessions outside it, nor any handler that is suspended.
C29_TargetDestroyed ==
    [][lastOp'.op = "targetDestroyed" =>
          LET p == lastOp'.pageId
          IN  /\ lastOp'.tracked = (p \in DOMAIN sessions)
              /\ IF p \in DOMAIN sessions
                 THEN /\ DOMAIN sessions' = DOMAIN sessions \ {p}
                      /\ \A q \in DOMAIN sessions' : sessions'[q] = sessions[q]
                      /\ \A q \in PageIds \ {p} : detached'[q] = detached[q]
                      /\ detached'[p].was = detached[p].was
                               + (IF IsConnected(ClosePageSession(sessions[p])) THEN 1 ELSE 0)
                      /\ ~IsConnected(ClosePageSession(sessions[p]))
                 ELSE /\ sessions' = sessions
                      /\ detached' = detached
                      /\ tasks' = tasks]_vars

\* C29 witness: the event for tracked page p1 was handled while p2 was
\* tracked too: p1 is gone from the registry, p2 is still in it.
C29_Witness ==
    /\ lastOp = [op |-> "targetDestroyed", pageId |-> "p1", tracked |-> TRUE]
    /\ DOMAIN sessions = {"p2"}
    /\ IsConnected(sessions["p2"])

\* C37: the 'close' event of a session that is not the registry entry of its
\* pageId (its connect() failed, or it was replaced or removed) leaves the
\* registry as it is: it never evicts the session that is the entry.
C37_ForeignCloseKeepsRegistry ==
    [][(\E p \in PageIds : \/ detached'[p].never < detached[p].never
                           \/ detached'[p].was < detached[p].was)
          => sessions' = sessions]_vars

\* ------------------------------------------------------ claims: SpecWire

\* C3: for any set of commands outstanding concurrently on one connection and
\* any order of response delivery, each caller is settled at most once, and a
\* caller settled by a response is settled with the result (or CDP error) of the
\* frame whose id is its own command's id; a command whose response was
\* delivered does not stay pending.
C3_OwnResponseOnly ==
    \A i \in DOMAIN cmds :
        LET c == cmds[i]
        IN  /\ c.nSettle <= 1
            /\ (c.outcome = Pending) <=> (c.nSettle = 0)
            /\ c.outcome.kind \in {"result", "cdp-error"} =>
                   c.outcome.body = [id |-> i, method |-> c.method]
            /\ (c.outcome = Pending /\ c.sent) =>
                   [id |-> i, method |-> c.method] \in toAnswer

\* C3 witness: three commands were outstanding together; the responses to the
\* third and the second were delivered before the response to the first, and
\* each settled caller holds its own response.
C3_Witness ==
    /\ Len(cmds) = 3
    /\ cmds[1].outcome = Pending
    /\ [id |-> 1, method |-> cmds[1].method] \in toAnswer
    /\ cmds[2].outcome = [kind |-> "cdp-error", body |-> [id |-> 2, method |-> cmds[2].method]]
    /\ cmds[3].outcome = [kind |-> "result", body |-> [id |-> 3, method |-> cmds[3].method]]
    /\ cmds[2].method # cmds[3].method

\* C4: a command whose response never arrives fails at its deadline (10 s on a
\* PageSession, 30 s on a CDPContext connection) with a timeout error naming
\* its method, and after that no message handler for its id remains registered
\* on the connection.
C4_TimeoutRemovesHandler ==
    \A i \in DOMAIN cmds :
        cmds[i].outcome.kind = "timeout" =>
            /\ cmds[i].outcome = [kind |-> "timeout", method |-> cmds[i].method]
            /\ cmds[i].elapsed >= (IF wKind = "session" THEN 10000 ELSE 30000)
            /\ i \notin handlers
            /\ i \notin timers

\* C16: a socket close does not settle the commands pending on the
\* connection; on a closed connection a pending command is settled only by its
\* own timeout, at or after its deadline and with the timeout error naming its
\* method; and every command pending on a closed connection is eventually
\* settled.
C16_ClosePendingUntilDeadline ==
    /\ [][/\ (wsOpen /\ ~wsOpen') => cmds' = cmds
          /\ \A i \in DOMAIN cmds :
                (~wsOpen /\ cmds[i].outcome = Pending /\ cmds'[i].outcome # Pending) =>
                    /\ cmds'[i].outcome = [kind |-> "timeout", method |-> cmds[i].method]
                    /\ cmds[i].elapsed >= TimeoutMs(wKind)
                    /\ \A j \in DOMAIN cmds : j # i => cmds'[j] = cmds[j]
         ]_vars
    /\ \A i \in 1..MaxCmds :
          (i \in DOMAIN cmds /\ ~wsOpen /\ cmds[i].outcome = Pending)
              ~> (i \in DOMAIN cmds /\ cmds[i].outcome # Pending)

\* C16 witness: the connection is closed; of two commands that were pending
\* when it closed the first has failed with its timeout error and the second
\* is still pending.
C16_Witness ==
    /\ ~wsOpen
    /\ Len(cmds) >= 2
    /\ cmds[1].sent /\ cmds[2].sent
    /\ {[id |-> 1, method |-> cmds[1].method], [id |-> 2, method |-> cmds[2].method]}
           \subseteq toAnswer
    /\ cmds[1].outcome = [kind |-> "timeout", method |-> cmds[1].method]
    /\ cmds[2].outcome = Pending

\* C26: a settled command stays as it was settled and no command is settled
\* twice; a response frame delivered after its command has timed out is
\* ignored: it changes no command, no handler and no timer.
C26_LateResponseIgnored ==
    [][/\ \A i \in DOMAIN cmds :
             /\ cmds'[i].nSettle <= 1
             /\ cmds[i].outcome # Pending => cmds'[i] = cmds[i]
       /\ \A f \in toAnswer :
             (f \notin toAnswer' /\ cmds[f.id].outcome.kind = "timeout") =>
                 (cmds' = cmds /\ handlers' = handlers /\ timers' = timers)
      ]_vars

\* C26 witness: the first command timed out and its response was delivered
\* afterwards, while the second command was still pending.
C26_Witness ==
    /\ Len(cmds) >= 2
    /\ cmds[1].sent
    /\ cmds[1].outcome = [kind |-> "timeout", method |-> cmds[1].method]
    /\ [id |-> 1, method |-> cmds[1].method] \notin toAnswer
    /\ cmds[2].outcome = Pending
    /\ [id |-> 2, method |-> cmds[2].method] \in toAnswer

C12_DaemonOnlyForReferencedPage ==
    /\ router.sess.made =>
          (router.sess.useDaemon <=> FindConnected(router.sess.seen, router.sess.ref))
    /\ router.sess.made => router.sess.pageId = router.sess.ref
    /\ (router.last.done /\ router.last.ok) => router.last.on = router.last.ref

\* C13: whatever the daemon does, a command issued through an exec session
\* (the pages are live) completes successfully.
C13_DaemonNeverFailsCommand ==
    router.last.done => router.last.ok

\* --------------------------------------------------------- claims: SpecExec
\* C21: a POST /exec/:pageId request for a page whose session is in the
\* registry is answered 200 with the result of a command that was sent on the
\* session's socket, 503 with nothing sent when the session was not connected,
\* 400 without a method, or 500 with the error of the failed command.
C21_ExecAnswers ==
    (exec.pc = "done" /\ exec.tracked) =>
        \/ /\ exec.code = 200
           /\ exec.waitId \in DOMAIN cmds
           /\ cmds[exec.waitId].sent
           /\ cmds[exec.waitId].outcome = [kind |-> "result", body |-> exec.data]
        \/ exec.code = 503 /\ ~exec.connected /\ exec.waitId = 0
        \/ exec.code = 400 /\ exec.waitId = 0
        \/ /\ exec.code = 500
           /\ \/ exec.waitId = 0 /\ exec.data = [kind |-> "not-connected"]
              \/ /\ exec.waitId \in DOMAIN cmds
                 /\ exec.data = cmds[exec.waitId].outcome
                 /\ exec.data.kind \in {"cdp-error", "timeout"}

\* ------------------------------------------------------- claims: SpecClient
\* The daemon processes the client's startDaemon spawned.
NumClient(ps) == Cardinality({i \in DOMAIN ps : ps[i].by = "client"})

\* C22: startDaemon() spawns nothing and returns started=false when its first
\* /health probe succeeds; otherwise it spawns exactly one process, returns
\* started=true only in a step whose probe succeeded after the spawn, and
\* throws the startup-timeout error only once the wait is used up.
C22_StartDaemon ==
    [][call'.op = "start" =>
          /\ NumClient(procs') - NumClient(procs)
               = call'.spawned - (IF call.op = "start" THEN call.spawned ELSE 0)
          /\ call'.spawned <= 1
          /\ (call.pc = "idle" /\ Healthy) =>
                 (call'.result = "already" /\ call'.spawned = 0 /\ call'.pc = "done")
          /\ (call.pc = "idle" /\ ~Healthy) => call'.pc = "spawn"
          /\ (call.result = "" /\ call'.result = "started") =>
                 (Healthy /\ call.pc = "poll" /\ call.spawned = 1)
          /\ (call.result = "" /\ call'.result = "timeout") =>
                 (call.pc = "poll" /\ call.spawned = 1 /\ call.elapsed >= StartMaxWaitMs)
          /\ (call.pc = "poll" /\ call.elapsed < StartMaxWaitMs /\ ~Healthy) =>
                 call'.result = ""]_vars

\* C22 witness: startDaemon spawned a daemon and returned started=true.
C22_Witness ==
    /\ call.op = "start"
    /\ call.result = "started"
    /\ call.spawned = 1
    /\ \E i \in DOMAIN procs : procs[i].by = "client" /\ port = i

\* C23: stopDaemon() returns false without sending anything when its first
\* /health probe fails; otherwise it POSTs /shutdown, returns true only in a
\* step whose probe found /health not responding, and returns false only when
\* the probe after the bounded wait was still answered.
C23_StopDaemon ==
    [][(call'.op = "stop" /\ call' # call) =>
          /\ (call.pc = "idle" /\ ~Healthy) =>
                 (call'.result = "false" /\ ~call'.sent /\ procs' = procs)
          /\ (call.pc = "idle" /\ Healthy) => (call'.pc = "shutdown" /\ procs' = procs)
          /\ call.pc = "shutdown" =>
                 (call'.sent /\ (Healthy => procs'[port].state = "stopping"))
          /\ (call.result = "" /\ call'.result = "true") => (call.sent /\ ~Healthy)
          /\ (call.result = "" /\ call'.result = "false" /\ call.sent) =>
                 (Healthy /\ call.elapsed >= StopMaxWaitMs)
          /\ call'.elapsed < StopMaxWaitMs + HealthTimeoutMs + PollSleepMs]_vars

\* C23 witness: stopDaemon sent /shutdown to a daemon and returned true after
\* that daemon exited.
C23_Witness ==
    /\ call.op = "stop"
    /\ call.result = "true"
    /\ call.sent
    /\ \E i \in DOMAIN procs : procs[i].state = "exited" /\ procs[i].exitCode = 0

\* --------------------------------------------------------- claims: SpecBoot
\* C24: a daemon whose listen() found the port bound has the port-in-use
\* error, tried once, exited with code 1 and never ran a sweep; at most one
\* daemon process listens on the port, and it is the one that holds it.
C24_PortInUse ==
    /\ Cardinality({i \in DOMAIN procs : procs[i].state \in {"listening", "stopping"}}) <= 1
    /\ \A i \in DOMAIN procs :
          /\ procs[i].state \in {"listening", "stopping"} => port = i
          /\ procs[i].error = "Port already in use" =>
                 /\ procs[i].state = "exited"
                 /\ procs[i].exitCode = 1
                 /\ procs[i].listens = 1
                 /\ procs[i].sweeps = 0
                 /\ ~procs[i].tracked

\* C24 witness: of two daemons started, one listens and has swept, the other
\* failed with the port-in-use error.
C24_Witness ==
    \E i, j \in DOMAIN procs :
        /\ procs[i].state = "listening"
        /\ procs[i].sweeps > 0
        /\ procs[j].error = "Port already in use"

\* C25: a daemon configured with a non-positive buffer capacity never listens
\* on the control port and never runs a sweep.
C25_NonPositiveNeverServes ==
    \A i \in DOMAIN procs :
        procs[i].bufferSize <= 0 =>
            (procs[i].state \notin {"listening", "stopping"} /\ procs[i].sweeps = 0)

\* ------------------------------------------------------- claims: SpecEvents
\* C27: an event frame, whatever its method, settles no command and removes
\* no handler and no timer: the commands (their outcomes and elapsed times),
\* the registered handlers and the armed timeouts are as before the frame.
C27_EventsLeavePending ==
    [][lastOp' # lastOp =>
           (cmds' = cmds /\ handlers' = handlers /\ timers' = timers)]_vars

\* C27 witness: an event frame named like a pending command arrived while
\* commands were waiting, and they are all still pending with their handlers
\* and timers.
C27_Witness ==
    /\ lastOp.op = "frame"
    /\ lastOp.method = "Runtime.enable"
    /\ Cardinality(lastOp.waiting) >= 2
    /\ \A i \in lastOp.waiting :
          /\ cmds[i].outcome = Pending
          /\ cmds[i].method = lastOp.method
          /\ i \in handlers
          /\ i \in timers

\* C30: only Network.requestWillBeSent changes the network buffer, pushing the
\* merged record on top of the entries already there (the oldest is evicted
\* when full); Network.responseReceived and Network.loadingFinished leave the
\* buffer as it is and set status and size in the index entry, keeping its
\* other fields; other events leave both alone.
C30_NetworkPushOnce ==
    [][lastOp' # lastOp =>
          LET old == sessions["p1"]
              new == sessions'["p1"]
              m == lastOp'.method
              r == lastOp'.requestId
              kept(f) == r \in DOMAIN old.networkRequests =>
                             new.networkRequests[r][f] = old.networkRequests[r][f]
          IN  /\ m = "Network.requestWillBeSent" =>
                    /\ CBGetAll(new.networkBuffer)
                         = LastN(Append(CBGetAll(old.networkBuffer), new.networkRequests[r]),
                                 BufferSize)
                    /\ new.networkRequests[r].method = "POST"
                    /\ kept("status") /\ kept("size")
              /\ m # "Network.requestWillBeSent" => new.networkBuffer = old.networkBuffer
              /\ m = "Network.responseReceived" =>
                    /\ new.networkRequests[r].status = lastOp'.v
                    /\ kept("method") /\ kept("size")
              /\ m = "Network.loadingFinished" =>
                    /\ new.networkRequests[r].size = lastOp'.v
                    /\ kept("method") /\ kept("status")
              /\ m \notin NetworkMethods => new.networkRequests = old.networkRequests
      ]_vars

\* C30 witness: the buffered entry of request r1 has neither status nor size,
\* while the index entry of r1 has both.
C30_Witness ==
    LET ps == sessions["p1"]
    IN  /\ "r1" \in DOMAIN ps.networkRequests
        /\ ps.networkRequests["r1"].status # Undefined
        /\ ps.networkRequests["r1"].size # Undefined
        /\ CBGetAll(ps.networkBuffer)
             = <<[id |-> "r1", method |-> "POST", status |-> Undefined, size |-> Undefined]>>

\* ------------------------------------------------------ claims: SpecConnect
\* C28: Network.enable is sent only after Runtime.enable got its result;
\* connect() has resolved only with both enable commands answered by a
\* result; it has rejected with the error of the enable command that failed;
\* and a socket that errored before opening has rejected it.
C28_ConnectOrder ==
    /\ \A i \in DOMAIN cmds :
          cmds[i].method = "Network.enable" =>
              /\ i = 2
              /\ cmds[1].method = "Runtime.enable"
              /\ cmds[1].outcome.kind = "result"
    /\ conn.pc = "resolved" =>
          /\ Len(cmds) >= 2
          /\ cmds[1].outcome.kind = "result"
          /\ cmds[2].outcome.kind = "result"
    /\ (conn.pc = "rejected" /\ ~conn.errored) =>
          \/ conn.error = [kind |-> "not-connected"]
          \/ \E i \in {1, 2} \cap DOMAIN cmds : conn.error = cmds[i].outcome
    /\ conn.errored => (conn.pc = "rejected" /\ conn.error = [kind |-> "socket-error"])

\* C36: a connect() that has rejected because an enable command failed or
\* timed out has closed the socket it opened: the session, which its caller
\* drops, holds no open connection on which events could still arrive.
C36_RejectedConnectClosed ==
    conn.pc = "rejected" => ~(wsRef /\ wsOpen)

\* C39: every connect() call eventually resolves or rejects, whatever its
\* socket does, so that its caller (POST /sessions, a sweep's registration
\* loop) goes on.
C39_ConnectSettles ==
    (conn.pc # "idle") ~> (conn.pc \in {"resolved", "rejected"})

\* ------------------------------------------------------ claims: SpecConsole
\* What getConsoleLogs() of the session gives.
ConsoleIds(ps) == GetLogs(ps.consoleBuffer, <<>>)

\* C31: the ids of the messages getConsoleLogs() returns are strictly
\* increasing and below the session's id counter, which starts at 1; a
\* console event of either kind is stored under the counter's value and moves
\* the counter on by one; no other step, clearLogs included, changes it.
C31_ConsoleIds ==
    /\ [](\A p \in DOMAIN sessions :
             LET ids == ConsoleIds(sessions[p])
             IN  /\ sessions[p].consoleId >= 1
                 /\ \A i \in DOMAIN ids : ids[i] \in 1..(sessions[p].consoleId - 1)
                 /\ \A i, j \in DOMAIN ids : i < j => ids[i] < ids[j])
    /\ [][\A p \in DOMAIN sessions \cap DOMAIN sessions' :
             LET old == sessions[p]
                 new == sessions'[p]
             IN  IF lastOp'.op = "console"
                 THEN /\ new.consoleId = old.consoleId + 1
                      /\ ConsoleIds(new)
                           = LastN(Append(ConsoleIds(old), old.consoleId), BufferSize)
                      /\ new.consoleById[old.consoleId] = old.consoleId
                 ELSE new.consoleId = old.consoleId]_vars

\* C31 witness: three messages were received, the third after a clearLogs;
\* it has id 3 and is the only one held.
C31_Witness ==
    /\ "p1" \in DOMAIN sessions
    /\ sessions["p1"].consoleId = 4
    /\ ConsoleIds(sessions["p1"]) = <<3>>
    /\ lastOp.op = "console"

\* C32: every message in the console ring buffer is in the index under its
\* id; the index loses an entry only by clearLogs or with the session; and
\* GET /logs/detail answers 200 with the indexed message for every id in the
\* index, in the ring buffer or not.
C32_DetailIndexUnbounded ==
    /\ [](\A p \in DOMAIN sessions :
             \A id \in Elems(ConsoleIds(sessions[p])) :
                 /\ id \in DOMAIN sessions[p].consoleById
                 /\ sessions[p].consoleById[id] = id)
    /\ [][\A p \in DOMAIN sessions :
             /\ (p \in DOMAIN sessions' /\ lastOp'.op # "DELETE /logs") =>
                    \A id \in DOMAIN sessions[p].consoleById :
                        /\ id \in DOMAIN sessions'[p].consoleById
                        /\ sessions'[p].consoleById[id] = sessions[p].consoleById[id]
             /\ (lastOp'.op = "GET /logs/detail" /\ lastOp'.pageId = p) =>
                    IF lastOp'.arg[1] \in DOMAIN sessions[p].consoleById
                    THEN /\ lastOp'.code = 200
                         /\ lastOp'.data = <<sessions[p].consoleById[lastOp'.arg[1]]>>
                    ELSE lastOp'.code = 404]_vars

\* C32 witness: message 1 was evicted from the ring buffer and GET
\* /logs/detail has just answered 200 with it.
C32_Witness ==
    /\ lastOp.op = "GET /logs/detail"
    /\ lastOp.code = 200
    /\ lastOp.arg = <<1>>
    /\ lastOp.data = <<1>>
    /\ "p1" \in DOMAIN sessions
    /\ ConsoleIds(sessions["p1"]) = <<2, 3>>

\* ------------------------------------------------- claims: SpecBuf (logs)
\* C33: getConsoleLogs(n) and getNetworkLogs(n) return the newest entries
\* oldest first: for every buffer state and every n >= 0 the result is the
\* last min(n, size) elements of what the call without n returns, in the same
\* order (n = 0 gives the empty list).
C33_LastNOldestFirst ==
    /\ cb # <<>> =>
          \A n \in 0..MaxK :
              LET all == GetLogs(cb[1], <<>>)
                  take == Min(n, CBSize(cb[1]))
              IN  /\ Len(all) = CBSize(cb[1])
                  /\ GetLogs(cb[1], <<n>>) = SubSeq(all, Len(all) - take + 1, Len(all))
    /\ lastOut.k >= 0 =>
          LET all == GetLogs(lastOut.before[1], <<>>)
              take == Min(lastOut.k, Len(all))
          IN  Reverse(lastOut.out) = SubSeq(all, Len(all) - take + 1, Len(all))

\* C33 witness: the last two of three entries of a wrapped buffer were asked
\* for, and they differ, so the order shows.
C33_Witness ==
    /\ lastOut.k = 2
    /\ CBSize(lastOut.before[1]) = 3
    /\ lastOut.before[1].head > 0
    /\ GetLogs(lastOut.before[1], <<2>>) = <<1, 2>>
    /\ GetLogs(lastOut.before[1], <<>>) = <<2, 1, 2>>

\* pushes[1], pushes[2], ... pushed in order onto buffer b.
RECURSIVE PushAll(_, _)
PushAll(b, pushes) ==
    IF pushes = <<>> THEN b ELSE PushAll(CBPush(b, Head(pushes)), Tail(pushes))

\* C35: clear() empties the buffer without changing its capacity: right after
\* it size is 0, getAll() and getLast(k) are empty and maxSize is what it was;
\* the pushes that follow give what they give on a new buffer of that capacity.
C35_ClearKeepsCapacity ==
    /\ lastOut.k = -2 =>
          /\ CBSize(cb[1]) = 0
          /\ CBGetAll(cb[1]) = <<>>
          /\ \A k \in 0..MaxK : CBGetLast(cb[1], k) = <<>>
          /\ CBMaxSize(cb[1]) = CBMaxSize(lastOut.before[1])
    /\ cb # <<>> =>
          LET fresh == PushAll(CBNew(CBMaxSize(cb[1])), pushed)
          IN  /\ CBMaxSize(cb[1]) = cbArg
              /\ CBSize(cb[1]) = CBSize(fresh)
              /\ CBGetAll(cb[1]) = CBGetAll(fresh)
              /\ \A k \in 0..MaxK : CBGetLast(cb[1], k) = CBGetLast(fresh, k)

\* C35 witness: a full buffer of capacity 2 that had wrapped was cleared.
C35_Witness ==
    /\ lastOut.k = -2
    /\ CBMaxSize(lastOut.before[1]) = 2
    /\ CBSize(lastOut.before[1]) = 2
    /\ lastOut.before[1].head = 1
    /\ CBMaxSize(cb[1]) = 2

\* -------------------------------------------------------- claims: SpecClose
\* C34: PageSession.close() is idempotent and silent toward the registry.
\* After the first close() the session is marked closed, holds no socket and
\* its socket is no longer open; a second close() changes nothing; no close()
\* call and no 'close' event of a closed session invokes the unexpected-close
\* callback; a sendCommand after close() is rejected as not connected and
\* sends nothing.
C34_CloseIdempotent ==
    /\ [](conn.closeCalls > 0 => conn.closed /\ ~wsRef /\ ~wsOpen /\ conn.sock # "open")
    /\ [][(conn'.closeCalls # conn.closeCalls) =>
             /\ conn'.onClose = conn.onClose
             /\ conn.closed =>
                   /\ conn' = [conn EXCEPT !.closeCalls = conn'.closeCalls]
                   /\ UNCHANGED <<bufVars, wireVars, daemonVars, oldExt, exec, bootVars>>]_vars
    /\ [][conn.closed =>
             /\ conn'.onClose = conn.onClose
             /\ conn'.closed
             /\ UNCHANGED <<messageId, toAnswer>>
             /\ Len(cmds') = Len(cmds)
             /\ early' # early => early' \in Methods]_vars

\* C34 witness: close() was called twice on a session with an open socket,
\* the socket's 'close' event came, the callback was never called, and a
\* sendCommand after that was rejected without taking an id.
C34_Witness ==
    /\ conn.closeCalls = 2
    /\ conn.sock = "closed"
    /\ conn.onClose = 0
    /\ early = "Page.navigate"
    /\ messageId = 1

\* ------------------------------------------------------ claims: SpecBrowser
\* C38: at most one discovery socket is open at any time, and an open one is
\* the socket this.browserWs refers to.
C38_OneDiscoverySocket ==
    /\ Cardinality({i \in DOMAIN disc.socks : disc.socks[i] = "open"}) <= 1
    /\ \A i \in DOMAIN disc.socks : disc.socks[i] = "open" => disc.ref = i

\* --------------------------------------------------------- claims: SpecStop
\* C40: once stop() has run the polling timer is cancelled, the registry is
\* empty and no page connection the daemon created is open, and it stays so,
\* also when a connect() that was in flight when stop() ran settles later.
C40_StoppedStaysClean ==
    disc.stopped =>
        /\ ~disc.timer
        /\ sessions = <<>>
        /\ \A p \in PageIds : OpenConnections(p) = 0

\* ------------------------------------------------------- claims: SpecBuf

\* C5: for every capacity c > 0 and every sequence of n pushes onto a new
\* CircularBuffer, getAll() has length min(n, c) and equals the most recent
\* min(n, c) pushed values in push order (oldest first); size never exceeds c.
C5_GetAllIsRecentPushes ==
    cb # <<>> =>
        /\ Len(CBGetAll(cb[1])) = Min(Len(pushed), cb[1].capacity)
        /\ CBGetAll(cb[1]) = LastN(pushed, cb[1].capacity)
        /\ CBSize(cb[1]) <= cb[1].capacity
        /\ CBSize(cb[1]) = Len(CBGetAll(cb[1]))

\* C5 witness: a buffer of capacity 2 that evicted and wrapped around.
C5_Witness ==
    /\ cb # <<>>
    /\ cb[1].capacity = 2
    /\ Len(pushed) = 5
    /\ pushed[4] # pushed[5]
    /\ CBGetAll(cb[1]) = <<pushed[4], pushed[5]>>

\* C6: getLast(k), k >= 0, returns exactly min(k, size) items, newest first,
\* the reverse of the last min(k, size) items of getAll(); with k above the
\* size it returns all items; it does not modify the buffer.
C6_GetLastNewestFirst ==
    lastOut.k >= 0 =>
        LET b == lastOut.before[1]
        IN  /\ Len(lastOut.out) = Min(lastOut.k, CBSize(b))
            /\ lastOut.out = Reverse(LastN(CBGetAll(b), lastOut.k))
            /\ lastOut.k > CBSize(b) => lastOut.out = Reverse(CBGetAll(b))
            /\ cb = lastOut.before

\* C6 witness: getLast(k) with k above the size of a wrapped, non-empty buffer.
C6_Witness ==
    /\ lastOut.k >= 0
    /\ lastOut.k > CBSize(lastOut.before[1])
    /\ Len(lastOut.out) = 2
    /\ lastOut.out[1] # lastOut.out[2]
    /\ lastOut.before[1].head > 0

\* C7: constructing with capacity 0 or negative fails with 'Capacity must be
\* positive' and yields no buffer; with capacity > 0 it succeeds and maxSize
\* is that capacity.
C7_Constructor ==
    /\ cb # <<>> => cbArg > 0 /\ CBMaxSize(cb[1]) = cbArg /\ cbErr = ""
    /\ cbErr # "" => cbErr = "Capacity must be positive" /\ cbArg <= 0 /\ cb = <<>>
    /\ cbArg # 0 => cb # <<>> \/ cbErr # ""

\* C7 witness: a construction with a negative capacity has thrown.
C7_Witness == cbArg < 0 /\ cbErr = "Capacity must be positive" /\ cb = <<>>

====
